---- MODULE Spec2Model ----
(***************************************************************************)
(* EventFrame front end: the in-process EventBus and the WebSocketBridge   *)
(* that relays events to and from the backend (src/frontend/src/config.ts, *)
(* which holds EventBus.ts and WebSocketBridge.ts).                        *)
(*                                                                         *)
(* Event names and patterns are sequences of one-character strings, so     *)
(* that endsWith / slice / startsWith are computed character by character. *)
(* An IEvent is [name, data, source]: source stands for metadata?.source   *)
(* ("undefined" when the event has no metadata or no source key); the      *)
(* timestamp plays no part in routing and is left out.                     *)
(*                                                                         *)
(* JavaScript runs one job to completion.  emit() calls every listener     *)
(* synchronously (Array.map over async arrow functions); what follows the  *)
(* `await` of a listener's result runs later as a microtask.  Emit is one  *)
(* atomic action for the synchronous part, Drain is the microtask          *)
(* checkpoint that runs the queued continuations, Settle is the settling   *)
(* of a promise returned by an asynchronous listener.                      *)
(***************************************************************************)
EXTENDS Integers, Sequences, FiniteSets, TLC

\* ------------------------------------------------------------- bounds
MaxSubs == 2        \* user calls of on/once on the bus alone
MaxBridgeSubs == 1  \* user calls of on beside the bridge
MaxEmits == 2       \* emissions on the bus alone
MaxBridgeEmits == 1 \* emissions beside the bridge (local and inbound together)
MaxMiddleware == 1  \* calls of use
MaxSockets == 2     \* sockets created by connect()
MaxDirect == 1      \* direct calls of emitToBackend
MaxOrderEmits == 1  \* emissions in the ordering and isolation specifications
MaxRelaySockets == 1 \* sockets created by connect() in the relay specification
MaxHistoryEmits == 102 \* emissions in the history specification
MaxObservers == 2   \* calls of onStatusChange
MaxQueryEmits == 3  \* emissions in the specifications of the queries
MaxLimit == 4       \* the largest limit given to getHistory
MaxBackendListeners == 2 \* listeners registered on the service side
MaxDispatches == 2  \* frames handled by the service side
MaxSnapshotEmits == 2 \* emissions in the specification of the dispatch snapshot
MaxPipeline == 2    \* calls of use in the specification of the pipeline

\* ------------------------------------------------------------- names
Star == <<"*">>
UserCreated == <<"u","s","e","r",".","c","r","e","a","t","e","d">>
AdminDelete == <<"a","d","m","i","n",".","d","e","l","e","t","e">>
TodoX == <<"t","o","d","o",".","x">>
AdminStar == <<"a","d","m","i","n",".","*">>
UserStar == <<"u","s","e","r",".","*">>

\* topics and patterns given to the matcher of the bridge
Empty == <<>>
Admin == <<"a","d","m","i","n">>
AdminDot == <<"a","d","m","i","n",".">>
Administrator == <<"a","d","m","i","n","i","s","t","r","a","t","o","r">>
StarDotDelete == <<"*",".","d","e","l","e","t","e">>
AdminNoDotStar == <<"a","d","m","i","n","*">>
StarStar == <<"*","*">>
MatcherTopics == {Empty, Admin, AdminDot, AdminDelete, Administrator, UserCreated, StarDotDelete}
MatcherPatterns == <<Star, AdminStar, AdminDelete, StarDotDelete, AdminNoDotStar, StarStar, Empty>>

\* names given to emit on the bus alone
EventNames == {UserCreated, AdminDelete}
\* names given to emit beside the bridge and carried by inbound frames
BridgeEventNames == {UserCreated, AdminDelete, TodoX}
\* names given to on / once / off
SubNames == {Star, UserCreated}
\* the priorities given to on / once (SubscribeOptions.priority)
Priorities == {0, 10}
\* user callbacks (function identities): f returns, g throws synchronously,
\* h is asynchronous and returns a promise that settles later
Callbacks == {"f", "g", "h"}
\* user callbacks that call the bus while they are being dispatched: s
\* subscribes f to 'user.created' (bus.on), x unsubscribes f from it
\* (bus.off); both return
ReentrantCallbacks == {"s", "x"}
\* metadata.source of an event object handed to emit by local code
LocalSources == {"undefined", "backend"}
\* metadata.source carried by an inbound frame
FrameSources == {"undefined", "peer"}

RelayPriority == 0 - 100

\* status callbacks (function identities): p returns, t throws, u calls the
\* unsubscribe handle its own onStatusChange call returned
StatusObservers == {"p", "t", "u"}

\* the transforms given to use
Transforms == {"strip", "rename"}
\* the transforms given to use where several are installed
PipelineTransforms == {"strip", "rename", "mark"}
\* a transform that throws on every event
ThrowingTransforms == {"fail"}
\* BridgeOptions.allowedEvents / blockedEvents given to the constructor
\* (1, 2: two policies with both lists; then one policy per pattern with the
\* pattern as the only allow entry, then one per pattern with the pattern as
\* the only block entry under allow = ['*'])
Policies == <<
  [allowedEvents |-> <<Star>>, blockedEvents |-> <<AdminStar>>],
  [allowedEvents |-> <<UserStar, AdminDelete>>, blockedEvents |-> <<AdminStar>>] >>
  \o [k \in 1..Len(MatcherPatterns) |->
        [allowedEvents |-> <<MatcherPatterns[k]>>, blockedEvents |-> <<>>]]
  \o [k \in 1..Len(MatcherPatterns) |->
        [allowedEvents |-> <<Star>>, blockedEvents |-> <<MatcherPatterns[k]>>]]
\* the policies with one pattern
MatcherPolicies == 3..Len(Policies)

maxHistorySize == 100

VARIABLES
  listeners,          \* EventBus.listeners: Map name -> ListenerEntry[]
  wildcardListeners,  \* EventBus.wildcardListeners
  middleware,         \* EventBus.middleware
  eventHistory,       \* EventBus.eventHistory
  emits,              \* the emit calls made so far, each with its invocations
  nextSid,            \* number of ListenerEntry objects created so far
  options,            \* WebSocketBridge.options
  socket,             \* WebSocketBridge.socket: 0 is null, else an index of sockets
  sockets,            \* the sockets io() has created, each with its transport state
  connectionStatus,   \* WebSocketBridge.connectionStatus
  sent,               \* the frames handed to socket.emit('emit_event', ...)
  statusCallbacks,    \* WebSocketBridge.statusCallbacks
  notified,           \* the status callbacks called by the last handler that
                      \* ran notifyStatusChange, in order, each with its argument
  returned,           \* what the last query of the bus (getHistory,
                      \* getListeners) returned to its caller
  backend             \* the service-side process behind the transport

busVars == <<listeners, wildcardListeners, middleware, eventHistory, emits, nextSid>>
bridgeVars == <<options, socket, sockets, connectionStatus, sent, statusCallbacks, notified>>
\* what lies outside the two objects
outsideVars == <<returned, backend>>
vars == <<listeners, wildcardListeners, middleware, eventHistory, emits, nextSid,
          options, socket, sockets, connectionStatus, sent, statusCallbacks, notified,
          returned, backend>>

\* ------------------------------------------------------------- EventBus

\* the arrow function setupLocalEventSync creates for the k-th socket
RelayListener(k) == <<"relay1", "relay2", "relay3", "relay4">>[k]
IsRelay(l) == \E k \in 1..4 : l = RelayListener(k)

\* ListenerEntry {listener, priority, once}; sid is the identity of the entry
\* object (the order of creation), topic the eventName on() was called with
Entry(l, p, o, sid, topic) ==
  [listener |-> l, priority |-> p, once |-> o, sid |-> sid, topic |-> topic]

\* one step of the stable sort: e goes behind every element that does not
\* compare after it (compare(a, b) = b.priority - a.priority <= 0)
RECURSIVE InsertByPriority(_, _)
InsertByPriority(e, s) ==
  IF s = <<>> THEN <<e>>
  ELSE IF Head(s).priority >= e.priority
       THEN <<Head(s)>> \o InsertByPriority(e, Tail(s))
       ELSE <<e>> \o s

\* on() without the sort call: the bucket stays in insertion order
PushWithoutSort(s) == s

\* Array.prototype.sort((a, b) => b.priority - a.priority): stable, descending
RECURSIVE SortByPriority(_)
SortByPriority(s) ==
  IF s = <<>> THEN <<>>
  ELSE InsertByPriority(s[Len(s)], SortByPriority(SubSeq(s, 1, Len(s) - 1)))

\* on(), the match-all branch: push, then sort
OnWildcard(wl, entry) == SortByPriority(Append(wl, entry))

\* on(), the named branch: create the bucket if absent, push, then sort
OnNamed(ls, name, entry) ==
  LET had == IF name \in DOMAIN ls THEN ls[name] ELSE <<>>
  IN  [n \in DOMAIN ls \cup {name} |->
         IF n = name THEN SortByPriority(Append(had, entry)) ELSE ls[n]]

\* off() written as splice(findIndex(...), 1) without a test of the index: an
\* index of -1 removes the last entry
WithoutListenerSplice(s, l) ==
  LET at == {i \in 1..Len(s) : s[i].listener = l}
  IN  IF at = {} THEN SubSeq(s, 1, Len(s) - 1)
      ELSE LET k == CHOOSE i \in at : \A j \in at : i <= j
           IN  SubSeq(s, 1, k - 1) \o SubSeq(s, k + 1, Len(s))

\* filter((entry) => entry.listener !== listener)
WithoutListener(s, l) == SelectSeq(s, LAMBDA e : e.listener # l)

\* off(), its effect on wildcardListeners
OffWildcard(wl, name, l) == IF name = Star THEN WithoutListener(wl, l) ELSE wl

\* off(), its effect on listeners
OffNamed(ls, name, l) ==
  IF name # Star /\ name \in DOMAIN ls
  THEN [ls EXCEPT ![name] = WithoutListener(@, l)]
  ELSE ls

\* one middleware call: "strip" returns {name, data, timestamp} without the
\* metadata, "rename" returns the event under another name, "mark" returns a
\* 'user.created' event with metadata.source set to 'backend'
ApplyTransform(t, ev) ==
  IF t = "strip" THEN [ev EXCEPT !.source = "undefined"]
  ELSE IF t = "rename" /\ ev.name = TodoX THEN [ev EXCEPT !.name = UserCreated]
  ELSE IF t = "mark" /\ ev.name = UserCreated THEN [ev EXCEPT !.source = "backend"]
  ELSE ev

\* emit() with every middleware call wrapped in a try block that drops the error
MiddlewareSwallowed(mw) == FALSE

\* the middleware loop of emit() throws: one of the transforms throws
MiddlewareThrows(mw) == \E i \in 1..Len(mw) : mw[i] \in ThrowingTransforms

\* the middleware loop running from the last transform added to the first
RECURSIVE ProcessEventReversed(_, _)
ProcessEventReversed(mw, ev) ==
  IF mw = <<>> THEN ev ELSE ApplyTransform(Head(mw), ProcessEventReversed(Tail(mw), ev))

\* for (const middleware of this.middleware) processedEvent = middleware(processedEvent)
RECURSIVE ProcessEvent(_, _)
ProcessEvent(mw, ev) ==
  IF mw = <<>> THEN ev ELSE ProcessEvent(Tail(mw), ApplyTransform(Head(mw), ev))

\* addToHistory without the shift: the log grows with every emit
AddToHistoryUnbounded(h, ev) == Append(h, ev)

\* addToHistory: push, then shift when over maxHistorySize
AddToHistory(h, ev) ==
  LET pushed == Append(h, ev)
  IN  IF Len(pushed) > maxHistorySize THEN Tail(pushed) ELSE pushed

\* Array.prototype.slice(-n) for n > 0: the last n elements, the whole array
\* when n is at least its length
SliceLast(h, n) == IF n >= Len(h) THEN h ELSE SubSeq(h, Len(h) - n + 1, Len(h))

\* getHistory(limit): limit ? this.eventHistory.slice(-limit) : [...this.eventHistory]
\* (given: the argument was passed; 0 is falsy, as undefined is)
GetHistoryValue(h, given, limit) ==
  IF given /\ limit # 0 THEN SliceLast(h, limit) ELSE h

\* getListeners leaving out the topics whose bucket is empty
GetListenersNonEmpty(wl, ls) ==
  [n \in {m \in DOMAIN ls : Len(ls[m]) > 0} \cup {Star} |->
     IF n = Star THEN Len(wl) ELSE Len(ls[n])]

\* getListeners: info[eventName] = listeners.length for every key of the Map,
\* then info['*'] = this.wildcardListeners.length
GetListenersValue(wl, ls) ==
  [n \in DOMAIN ls \cup {Star} |-> IF n = Star THEN Len(wl) ELSE Len(ls[n])]

\* emit() pushing the named bucket before the match-all bucket
CollectNamedFirst(wl, ls, name) ==
  (IF name \in DOMAIN ls THEN ls[name] ELSE <<>>) \o wl

\* the buckets of the keys in `keys`, one after the other
RECURSIVE ConcatBuckets(_, _)
ConcatBuckets(ls, keys) ==
  IF keys = {} THEN <<>>
  ELSE LET k == CHOOSE n \in keys : \A m \in keys : Len(n) <= Len(m)
       IN  ls[k] \o ConcatBuckets(ls, keys \ {k})

\* emit() collecting every named bucket whose key matches the event name as a
\* pattern (a trailing '*' is a prefix wildcard), as the bridge's policy does
CollectByPattern(wl, ls, name) ==
  wl \o ConcatBuckets(ls, {n \in DOMAIN ls :
                             \/ n = name
                             \/ /\ Len(n) > 0
                                /\ n[Len(n)] = "*"
                                /\ Len(name) >= Len(n) - 1
                                /\ SubSeq(name, 1, Len(n) - 1) = SubSeq(n, 1, Len(n) - 1)})

\* emit(): the listener list, match-all bucket first
CollectListeners(wl, ls, name) ==
  wl \o (IF name \in DOMAIN ls THEN ls[name] ELSE <<>>)

\* what a call of listener l does: the relay listeners return
Behaviour(l) == IF l = "g" THEN "throw" ELSE IF l = "h" THEN "promise" ELSE "return"

\* what the async arrow of emit() has reached for one listener right after the
\* synchronous call: "await" (the listener returned, the continuation is a
\* queued microtask), "caught" (it threw, the catch block ran at once),
\* "pending" (it returned a promise that has not settled)
AfterCall(b) ==
  IF b = "return" THEN "await" ELSE IF b = "throw" THEN "caught" ELSE "pending"

\* emit() as a plain loop without try/catch: the first listener that throws
\* ends the loop, and its error leaves emit()
RECURSIVE InvokeUntilThrow(_)
InvokeUntilThrow(snap) ==
  IF snap = <<>> THEN <<>>
  ELSE IF Behaviour(Head(snap).listener) = "throw"
       THEN <<[entry |-> Head(snap), st |-> "uncaught"]>>
       ELSE <<[entry |-> Head(snap), st |-> AfterCall(Behaviour(Head(snap).listener))]>>
            \o InvokeUntilThrow(Tail(snap))

\* emit() as `for (const entry of listeners) { try { await entry.listener(e) ...`:
\* the loop stops at the first listener that returns, to wait for its result;
\* the listeners behind it have not been called when emit() yields
RECURSIVE InvokeSequential(_)
InvokeSequential(snap) ==
  IF snap = <<>> THEN <<>>
  ELSE IF Behaviour(Head(snap).listener) = "throw"
       THEN <<[entry |-> Head(snap), st |-> "caught"]>> \o InvokeSequential(Tail(snap))
       ELSE <<[entry |-> Head(snap), st |-> AfterCall(Behaviour(Head(snap).listener))]>>

\* listeners.map(async (entry) => {...}): one record per listener, in the order
\* of invocation; every listener of the list is called
InvokeAll(snap) ==
  [i \in 1..Len(snap) |->
     [entry |-> snap[i], st |-> AfterCall(Behaviour(snap[i].listener))]]

\* one emit call: the event given (arg), the processed event (ev), who called
\* (origin), and the invocations; seq and conn record the moment of the call:
\* whether every earlier emit had settled, and whether the socket was connected
EmitRecord(arg, pe, origin, snap, seq, conn) ==
  [arg |-> arg, ev |-> pe, origin |-> origin, seq |-> seq, conn |-> conn,
   calls |-> InvokeAll(snap), thrown |-> FALSE]

\* an emit call that ended in the middleware loop: the error leaves the async
\* function before addToHistory and before any listener is called (there is
\* no processed event: ev repeats the event given)
AbortedRecord(arg, origin, seq, conn) ==
  [arg |-> arg, ev |-> arg, origin |-> origin, seq |-> seq, conn |-> conn,
   calls |-> <<>>, thrown |-> TRUE]

\* emit() without `await Promise.all(promises)`: the promise it returns is
\* fulfilled as soon as the listeners have been called
EmitOutcomeNotAwaited(e) == "resolved"

\* Promise.all(promises) of emit e: each promise is the async arrow of one
\* invocation, which fulfils once its try block or its catch block has ended
EmitOutcome(e) ==
  LET c == emits[e].calls
  IN  IF emits[e].thrown THEN "rejected"
      ELSE IF \E i \in 1..Len(c) : c[i].st = "uncaught" THEN "rejected"
      ELSE IF \A i \in 1..Len(c) : c[i].st \in {"done", "caught"} THEN "resolved"
      ELSE "pending"

\* the promise emit() returned has settled
Settled(e) == EmitOutcome(e) # "pending"
\* a microtask is queued
MicrotaskQueued ==
  \E e \in 1..Len(emits) : \E i \in 1..Len(emits[e].calls) :
    emits[e].calls[i].st \in {"await", "rejected"}

\* ------------------------------------------------------------- WebSocketBridge

EndsWithStar(p) == Len(p) > 0 /\ p[Len(p)] = "*"
StartsWith(name, prefix) ==
  Len(prefix) <= Len(name) /\ SubSeq(name, 1, Len(prefix)) = prefix

\* a matcher that reads a final '.*' as "this topic and everything under it":
\* the prefix is the pattern without its last two characters
MatchesPatternLoose(pattern, name) ==
  IF EndsWithStar(pattern)
  THEN StartsWith(name, SubSeq(pattern, 1, Len(pattern) - 2))
  ELSE name = pattern

\* one pattern of isEventAllowed: endsWith('*') ? startsWith(slice(0, -1)) : ===
MatchesPattern(pattern, name) ==
  IF EndsWithStar(pattern)
  THEN StartsWith(name, SubSeq(pattern, 1, Len(pattern) - 1))
  ELSE name = pattern

\* isEventAllowed with the allow list checked first
IsEventAllowedAllowFirst(opts, name) ==
  LET pol == Policies[opts.policy]
  IN  IF \E i \in 1..Len(pol.allowedEvents) : MatchesPattern(pol.allowedEvents[i], name)
      THEN TRUE
      ELSE FALSE

\* isEventAllowed: the block list first, then the allow list, else false
IsEventAllowed(opts, name) ==
  LET pol == Policies[opts.policy]
  IN  IF \E i \in 1..Len(pol.blockedEvents) : MatchesPattern(pol.blockedEvents[i], name)
      THEN FALSE
      ELSE \E i \in 1..Len(pol.allowedEvents) : MatchesPattern(pol.allowedEvents[i], name)

\* this.socket?.connected
SocketConnected(sock, socks) == sock # 0 /\ socks[sock] = "connected"

\* the relay listener of a bridge that hands the event to the socket whenever
\* it holds one (socket.io buffers what is emitted on a socket that is not
\* connected and sends it on connection)
RelayFramesBuffered(opts, sock, socks, ev, eid) ==
  IF ev.source = "backend" THEN <<>>
  ELSE IF ~IsEventAllowed(opts, ev.name) THEN <<>>
  ELSE IF sock # 0
       THEN <<[name |-> ev.name, data |-> ev.data, via |-> "relay", eid |-> eid]>>
       ELSE <<>>

\* the relay listener of setupLocalEventSync: the frames it hands to
\* emitToBackend for one observed event (none or one)
RelayFrames(opts, sock, socks, ev, eid) ==
  IF ev.source = "backend" THEN <<>>
  ELSE IF ~IsEventAllowed(opts, ev.name) THEN <<>>
  ELSE IF SocketConnected(sock, socks)
       THEN <<[name |-> ev.name, data |-> ev.data, via |-> "relay", eid |-> eid]>>
       ELSE <<>>

\* the keys of the object handed to socket.emit('emit_event', {name: eventName,
\* data}); via and eid are not on the wire: they record which call of
\* emitToBackend built the frame and for which emit
WireKeys(frame) == DOMAIN frame \ {"via", "eid"}

\* the frames sent while emit() calls the listeners of snap in order
RECURSIVE DispatchFrames(_, _, _, _, _, _)
DispatchFrames(snap, opts, sock, socks, ev, eid) ==
  IF snap = <<>> THEN <<>>
  ELSE (IF IsRelay(Head(snap).listener)
        THEN RelayFrames(opts, sock, socks, ev, eid) ELSE <<>>)
       \o DispatchFrames(Tail(snap), opts, sock, socks, ev, eid)

\* the handle onStatusChange returned: indexOf(callback), then splice(index, 1)
\* when the callback is found
RemoveFirst(cbs, cb) ==
  LET at == {i \in 1..Len(cbs) : cbs[i] = cb}
  IN  IF at = {} THEN cbs
      ELSE LET k == CHOOSE i \in at : \A j \in at : i <= j
           IN  SubSeq(cbs, 1, k - 1) \o SubSeq(cbs, k + 1, Len(cbs))

\* statusCallbacks.forEach from index k on: forEach reads the length once
\* (len) and then visits each index that is still present in the array, which
\* the callbacks may have shortened in the meantime; a callback that throws
\* ends in the catch block
RECURSIVE ForEachCallback(_, _, _, _, _)
ForEachCallback(cbs, k, len, status, calls) ==
  IF k > len THEN [cbs |-> cbs, calls |-> calls]
  ELSE IF k > Len(cbs) THEN ForEachCallback(cbs, k + 1, len, status, calls)
  ELSE ForEachCallback(IF cbs[k] = "u" THEN RemoveFirst(cbs, "u") ELSE cbs,
                       k + 1, len, status,
                       Append(calls, [callback |-> cbs[k], status |-> status]))

\* notifyStatusChange(status): the array after it, and the calls it made
NotifyStatusChange(cbs, status) == ForEachCallback(cbs, 1, Len(cbs), status, <<>>)

\* the 'event' handler with the frame's metadata spread after the tag
\* ({source: 'backend', ...eventData.metadata}): a source in the frame wins
InboundEventKeepSource(name, data, fsrc) ==
  [name |-> name, data |-> data, source |-> IF fsrc = "undefined" THEN "backend" ELSE fsrc]

\* the event the socket 'event' handler builds from a frame
InboundEvent(name, data, fsrc) == [name |-> name, data |-> data, source |-> "backend"]

\* the list emit() goes through, read again from the buckets before every call
ListenerListLive(list, wl, ls, name) == CollectListeners(wl, ls, name)

\* the list emit() goes through: `listeners` is an array of its own, filled
\* from the two buckets before the first call; what a listener does to the
\* buckets (wl, ls) does not reach it
ListenerList(list, wl, ls, name) == list

\* what the call of listener l does to the named buckets
CallEffect(l, ls, sid) ==
  IF l = "s" THEN OnNamed(ls, UserCreated, Entry("f", 0, FALSE, sid + 1, UserCreated))
  ELSE IF l = "x" THEN OffNamed(ls, UserCreated, "f")
  ELSE ls

\* user callbacks that use the bus while they are being dispatched: r reads
\* the log (bus.getHistory()), e emits 'todo.x' (bus.emit, not awaited); both
\* return
BusCallbacks == {"r", "e"}

\* the event listener e emits
NestedEvent == [name |-> TodoX, data |-> "d", source |-> "undefined"]

\* what listener l, called with event ev, has read last: r keeps the result
\* of getHistory() together with the event it was called with
ReadHistory(l, ev, hist, ret) ==
  IF l = "r"
  THEN [op |-> "listenerRead", event |-> ev, value |-> GetHistoryValue(hist, FALSE, 0)]
  ELSE ret

\* listeners.map(...), the synchronous part: the entries of the list are
\* called in order from index k on with the event cur.ev of emit call cur.eid.
\* The result is the entries called, the buckets as the calls have left them,
\* and the rest of the bus (bus.hist the log, bus.recs the emit calls made by
\* the listeners called, bus.ret what a listener read last, bus.frames the
\* frames the relay listeners sent). An emit by a listener runs, as emit()
\* does, to its own `await Promise.all` before the listener returns: its
\* middleware, its append to the log, and the calls of its own listeners.
RECURSIVE Dispatch(_, _, _, _, _, _, _, _, _)
Dispatch(list, k, wl, ls, sid, cur, invoked, env, bus) ==
  IF k > Len(list) THEN [invoked |-> invoked, ls |-> ls, sid |-> sid, bus |-> bus]
  ELSE LET l == list[k].listener
           called == [bus EXCEPT
                        !.frames = @ \o DispatchFrames(<<list[k]>>, env.opts, env.sock,
                                                       env.socks, cur.ev, cur.eid),
                        !.ret = ReadHistory(l, cur.ev, bus.hist, @)]
           conn == SocketConnected(env.sock, env.socks)
           at == Len(bus.recs) + 1
           pe == ProcessEvent(env.mw, NestedEvent)
           started == [called EXCEPT
                         !.hist = AddToHistory(@, pe),
                         !.recs = Append(@, EmitRecord(NestedEvent, pe, "local", <<>>,
                                                       FALSE, conn))]
           run == Dispatch(CollectListeners(wl, ls, pe.name), 1, wl, ls, sid,
                           [ev |-> pe, eid |-> env.base + at], <<>>, env, started)
           after ==
             IF l = "e"
             THEN IF MiddlewareThrows(env.mw)
                  THEN [ls |-> ls, sid |-> sid,
                        bus |-> [called EXCEPT
                                   !.recs = Append(@, AbortedRecord(NestedEvent, "local",
                                                                    FALSE, conn))]]
                  ELSE [ls |-> run.ls, sid |-> run.sid,
                        bus |-> [run.bus EXCEPT !.recs[at].calls = InvokeAll(run.invoked)]]
             ELSE [ls |-> CallEffect(l, ls, sid),
                   sid |-> IF l = "s" THEN sid + 1 ELSE sid,
                   bus |-> called]
       IN  Dispatch(ListenerList(list, wl, after.ls, cur.ev.name), k + 1, wl, after.ls,
                    after.sid, cur, Append(invoked, list[k]), env, after.bus)

\* ------------------------------------------------------------- actions

\* emit(), up to `await Promise.all(promises)`: middleware, history, the
\* listener list, and the synchronous call of every listener, with what the
\* listeners called do to the bus: the emit calls a listener makes come after
\* the call that invoked it, in the order they were made
DoEmit(ev, origin) ==
  LET pe == ProcessEvent(middleware, ev)
      snap == CollectListeners(wildcardListeners, listeners, pe.name)
      eid == Len(emits) + 1
      env == [opts |-> options, sock |-> socket, socks |-> sockets, mw |-> middleware,
              base |-> eid]
      start == [hist |-> AddToHistory(eventHistory, pe), recs |-> <<>>,
                ret |-> returned, frames |-> <<>>]
      run == Dispatch(snap, 1, wildcardListeners, listeners, nextSid,
                      [ev |-> pe, eid |-> eid], <<>>, env, start)
      seq == \A e \in 1..Len(emits) : Settled(e)
      conn == SocketConnected(socket, sockets)
  IN  /\ IF MiddlewareThrows(middleware)
         THEN /\ emits' = Append(emits, AbortedRecord(ev, origin, seq, conn))
              /\ UNCHANGED <<eventHistory, sent, listeners, nextSid, returned>>
         ELSE /\ emits' = Append(emits, EmitRecord(ev, pe, origin, run.invoked, seq, conn))
                            \o run.bus.recs
              /\ eventHistory' = run.bus.hist
              /\ sent' = sent \o run.bus.frames
              /\ listeners' = run.ls
              /\ nextSid' = run.sid
              /\ returned' = run.bus.ret
      /\ UNCHANGED <<wildcardListeners, middleware,
                     options, socket, sockets, connectionStatus,
                     statusCallbacks, notified, backend>>

\* bus.on(name, l, {priority: p, once: o}) / bus.once(name, l, p)
On(name, l, p, o) ==
  LET entry == Entry(l, p, o, nextSid + 1, name)
  IN  /\ nextSid' = nextSid + 1
      /\ IF name = Star
         THEN /\ wildcardListeners' = OnWildcard(wildcardListeners, entry)
              /\ UNCHANGED listeners
         ELSE /\ listeners' = OnNamed(listeners, name, entry)
              /\ UNCHANGED wildcardListeners
      /\ UNCHANGED <<middleware, eventHistory, emits>>
      /\ UNCHANGED bridgeVars
      /\ UNCHANGED outsideVars

\* bus.off(name, l), also the handle on() returned
Off(name, l) ==
  /\ wildcardListeners' = OffWildcard(wildcardListeners, name, l)
  /\ listeners' = OffNamed(listeners, name, l)
  /\ UNCHANGED <<middleware, eventHistory, emits, nextSid>>
  /\ UNCHANGED bridgeVars
  /\ UNCHANGED outsideVars

\* bus.use(t)
Use(t) ==
  /\ middleware' = Append(middleware, t)
  /\ UNCHANGED <<listeners, wildcardListeners, eventHistory, emits, nextSid>>
  /\ UNCHANGED bridgeVars
  /\ UNCHANGED outsideVars

\* bus.emit(name, data) and bus.emit({name, data, metadata}) by local code
Emit(name, src) == DoEmit([name |-> name, data |-> "d", source |-> src], "local")

\* bus.emit(name, data) with a payload chosen by the caller
EmitData(name, data) ==
  DoEmit([name |-> name, data |-> data, source |-> "undefined"], "local")

\* the once listeners whose continuation is queued, as <<name, listener>>
\* pairs: the arguments of the off() calls the queued microtasks make
QueuedOffs ==
  UNION { { <<emits[e].ev.name, emits[e].calls[i].entry.listener>> :
              i \in { k \in 1..Len(emits[e].calls) :
                        /\ emits[e].calls[k].st = "await"
                        /\ emits[e].calls[k].entry.once } } :
          e \in 1..Len(emits) }

\* a bucket after the queued off() calls on it
AfterOffs(bucket, name, offs) ==
  SelectSeq(bucket, LAMBDA en : <<name, en.listener>> \notin offs)

\* the microtask checkpoint at the end of the running job: every queued
\* continuation of `await entry.listener(processedEvent)` runs; a fulfilled
\* result goes on to `if (entry.once) this.off(processedEvent.name,
\* entry.listener)`, a rejected one to the catch block
Drain ==
  /\ MicrotaskQueued
  /\ emits' = [e \in 1..Len(emits) |->
                 [emits[e] EXCEPT !.calls =
                    [i \in 1..Len(emits[e].calls) |->
                       [emits[e].calls[i] EXCEPT !.st =
                          IF @ = "await" THEN "done"
                          ELSE IF @ = "rejected" THEN "caught" ELSE @]]]]
  /\ wildcardListeners' = AfterOffs(wildcardListeners, Star, QueuedOffs)
  /\ listeners' = [n \in DOMAIN listeners |-> AfterOffs(listeners[n], n, QueuedOffs)]
  /\ UNCHANGED <<middleware, eventHistory, nextSid>>
  /\ UNCHANGED bridgeVars
  /\ UNCHANGED outsideVars

\* the promise a listener returned settles
Settle(e, i, ok) ==
  /\ emits[e].calls[i].st = "pending"
  /\ emits' = [emits EXCEPT ![e].calls[i].st = IF ok THEN "await" ELSE "rejected"]
  /\ UNCHANGED <<listeners, wildcardListeners, middleware, eventHistory, nextSid>>
  /\ UNCHANGED bridgeVars
  /\ UNCHANGED outsideVars

\* setupEventHandlers without the test of the option: the relay listener is
\* installed under every setting
SyncLocalAlways(opts) == TRUE

\* setupEventHandlers: if (this.options.syncLocalEvents) this.setupLocalEventSync()
SyncLocalEvents(opts) == opts.syncLocalEvents

\* number of entries created by the bridge so far
RelayEntries == IF SyncLocalEvents(options) THEN Len(sockets) ELSE 0

\* connect(): a no-op while the socket is connected, else a new socket with
\* its handlers and, with syncLocalEvents, one more relay listener on '*'
Connect ==
  IF SocketConnected(socket, sockets)
  THEN UNCHANGED vars
  ELSE /\ connectionStatus' = "connecting"
       /\ statusCallbacks' = NotifyStatusChange(statusCallbacks, "connecting").cbs
       /\ notified' = NotifyStatusChange(statusCallbacks, "connecting").calls
       /\ sockets' = Append(sockets, "connecting")
       /\ socket' = Len(sockets) + 1
       /\ IF SyncLocalEvents(options)
          THEN /\ wildcardListeners' = OnWildcard(wildcardListeners,
                     Entry(RelayListener(Len(sockets) + 1), RelayPriority, FALSE,
                           nextSid + 1, Star))
               /\ nextSid' = nextSid + 1
          ELSE UNCHANGED <<wildcardListeners, nextSid>>
       /\ UNCHANGED <<listeners, middleware, eventHistory, emits, options, sent>>
       /\ UNCHANGED outsideVars

\* disconnect(): only with a socket. socket.disconnect() is library code: on
\* a connected socket it may run the 'disconnect' handler (which sets the same
\* status and notifies) before disconnect() itself notifies
Disconnect ==
  IF socket = 0
  THEN UNCHANGED vars
  ELSE \E fired \in (IF sockets[socket] = "connected" THEN BOOLEAN ELSE {FALSE}) :
         LET first == IF fired THEN NotifyStatusChange(statusCallbacks, "disconnected")
                      ELSE [cbs |-> statusCallbacks, calls |-> <<>>]
             second == NotifyStatusChange(first.cbs, "disconnected")
         IN  /\ sockets' = [sockets EXCEPT ![socket] = "closed"]
             /\ socket' = 0
             /\ connectionStatus' = "disconnected"
             /\ statusCallbacks' = second.cbs
             /\ notified' = first.calls \o second.calls
             /\ UNCHANGED busVars
             /\ UNCHANGED outsideVars
             /\ UNCHANGED <<options, sent>>

\* socket s: the transport's 'connect'
SockConnect(s) ==
  /\ ~MicrotaskQueued
  /\ sockets[s] = "connecting"
  /\ sockets' = [sockets EXCEPT ![s] = "connected"]
  /\ connectionStatus' = "connected"
  /\ statusCallbacks' = NotifyStatusChange(statusCallbacks, "connected").cbs
  /\ notified' = NotifyStatusChange(statusCallbacks, "connected").calls
  /\ UNCHANGED busVars
  /\ UNCHANGED outsideVars
  /\ UNCHANGED <<options, socket, sent>>

\* socket s: the transport's 'disconnect' (the socket goes back to reconnecting)
SockDisconnect(s) ==
  /\ ~MicrotaskQueued
  /\ sockets[s] = "connected"
  /\ sockets' = [sockets EXCEPT ![s] = "connecting"]
  /\ connectionStatus' = "disconnected"
  /\ statusCallbacks' = NotifyStatusChange(statusCallbacks, "disconnected").cbs
  /\ notified' = NotifyStatusChange(statusCallbacks, "disconnected").calls
  /\ UNCHANGED busVars
  /\ UNCHANGED outsideVars
  /\ UNCHANGED <<options, socket, sent>>

\* socket s: the transport's 'connect_error'
SockConnectError(s) ==
  /\ ~MicrotaskQueued
  /\ sockets[s] = "connecting"
  /\ connectionStatus' = "disconnected"
  /\ statusCallbacks' = NotifyStatusChange(statusCallbacks, "disconnected").cbs
  /\ notified' = NotifyStatusChange(statusCallbacks, "disconnected").calls
  /\ UNCHANGED busVars
  /\ UNCHANGED outsideVars
  /\ UNCHANGED <<options, socket, sockets, sent>>

\* socket s: an 'event' frame from the backend
SockEvent(s, name, fsrc) ==
  /\ ~MicrotaskQueued
  /\ sockets[s] = "connected"
  /\ IF options.syncRemoteEvents
     THEN DoEmit(InboundEvent(name, "d", fsrc), "inbound")
     ELSE UNCHANGED vars

\* bridge.onStatusChange(cb)
OnStatusChange(cb) ==
  /\ statusCallbacks' = Append(statusCallbacks, cb)
  /\ UNCHANGED busVars
  /\ UNCHANGED outsideVars
  /\ UNCHANGED <<options, socket, sockets, connectionStatus, sent, notified>>

\* the handle onStatusChange(cb) returned, called by local code
OffStatusChange(cb) ==
  /\ statusCallbacks' = RemoveFirst(statusCallbacks, cb)
  /\ UNCHANGED busVars
  /\ UNCHANGED outsideVars
  /\ UNCHANGED <<options, socket, sockets, connectionStatus, sent, notified>>

\* bridge.emitToBackend(name, data) called by local code
EmitToBackend(name) ==
  /\ IF SocketConnected(socket, sockets)
     THEN sent' = Append(sent, [name |-> name, data |-> "d", via |-> "direct", eid |-> 0])
     ELSE UNCHANGED sent
  /\ UNCHANGED busVars
  /\ UNCHANGED outsideVars
  /\ UNCHANGED <<options, socket, sockets, connectionStatus, statusCallbacks, notified>>

\* ------------------------------------------------------------- service side
\* The service-side process (the Python backend: its bus and the handler of
\* 'emit_event' frames, handle_frontend_event) is described by the README and
\* by the specification only; it is modelled from them.

\* BroadcastRequest.scope
Scopes == {"local", "broadcast", "both"}
\* what a service-side listener returns: nothing of interest, or a
\* BroadcastRequest for the event 'user.created' with one of the scopes
BackendReturns == {"nothing"} \cup Scopes

\* the service-side listeners of a topic, in the order of registration
BackendMatched(ls, name) == SelectSeq(ls, LAMBDA l : l.topic = name)

\* the BroadcastRequests among the return values of the listeners invoked for
\* name, in the order of invocation
CollectRequests(ls, name) ==
  LET called == BackendMatched(ls, name)
      asked == SelectSeq(called, LAMBDA l : l.returns \in Scopes)
  IN  [k \in 1..Len(asked) |-> [target |-> UserCreated, scope |-> asked[k].returns]]

\* a dispatching context that relays every request, whatever its scope
FulfilRequestAlwaysRelay(scope) ==
  [relay |-> TRUE, local |-> scope \in {"local", "both"}]

\* what the dispatching context does with one request: 'local' suppresses the
\* relay, 'broadcast' relays without invoking local listeners, 'both' does both
FulfilRequest(scope) ==
  [relay |-> scope \in {"broadcast", "both"}, local |-> scope \in {"local", "both"}]

\* the frames and the local emits the dispatching context makes for the
\* requests reqs of dispatch d, from request k on
RECURSIVE FulfilAll(_, _, _, _, _, _)
FulfilAll(reqs, k, d, ls, frames, locals) ==
  IF k > Len(reqs) THEN [broadcasts |-> frames, localEmits |-> locals]
  ELSE LET todo == FulfilRequest(reqs[k].scope)
       IN  FulfilAll(reqs, k + 1, d, ls,
             IF todo.relay
             THEN Append(frames, [name |-> reqs[k].target, dispatch |-> d, request |-> k])
             ELSE frames,
             IF todo.local
             THEN Append(locals, [name |-> reqs[k].target, dispatch |-> d, request |-> k,
                                  calls |-> BackendMatched(ls, reqs[k].target)])
             ELSE locals)

\* a dispatch waits for its dispatching context
BackendOpen == \E d \in 1..Len(backend.dispatches) : backend.dispatches[d].phase = "settled"

\* a listener is registered on the service-side bus
BackendOn(topic, ret) ==
  /\ ~BackendOpen
  /\ backend' = [backend EXCEPT !.listeners = Append(@, [topic |-> topic, returns |-> ret])]
  /\ UNCHANGED busVars
  /\ UNCHANGED bridgeVars
  /\ UNCHANGED returned

\* an inbound frame reaches its handler, which emits it on the service-side
\* bus: the listeners of its name are invoked, their return values collected,
\* and the emit settles
BackendReceive(name) ==
  /\ ~BackendOpen
  /\ backend' = [backend EXCEPT !.dispatches =
        Append(@, [name |-> name,
                   called |-> BackendMatched(backend.listeners, name),
                   requests |-> CollectRequests(backend.listeners, name),
                   phase |-> "settled"])]
  /\ UNCHANGED busVars
  /\ UNCHANGED bridgeVars
  /\ UNCHANGED returned

\* the handler, the triggering emit having settled, fulfils the collected
\* requests in order, each once
BackendFulfil(d) ==
  /\ backend.dispatches[d].phase = "settled"
  /\ LET done == FulfilAll(backend.dispatches[d].requests, 1, d, backend.listeners,
                           backend.broadcasts, backend.localEmits)
     IN  backend' = [backend EXCEPT !.dispatches[d].phase = "fulfilled",
                                    !.broadcasts = done.broadcasts,
                                    !.localEmits = done.localEmits]
  /\ UNCHANGED busVars
  /\ UNCHANGED bridgeVars
  /\ UNCHANGED returned

\* bus.getHistory(limit), and bus.getHistory() when given is FALSE
GetHistory(given, limit) ==
  /\ returned' = [op |-> "getHistory", given |-> given, limit |-> limit,
                  value |-> GetHistoryValue(eventHistory, given, limit)]
  /\ UNCHANGED <<listeners, wildcardListeners, middleware, eventHistory, emits, nextSid>>
  /\ UNCHANGED bridgeVars
  /\ UNCHANGED backend

\* bus.getListeners()
GetListeners ==
  /\ returned' = [op |-> "getListeners",
                  value |-> GetListenersValue(wildcardListeners, listeners)]
  /\ UNCHANGED <<listeners, wildcardListeners, middleware, eventHistory, emits, nextSid>>
  /\ UNCHANGED bridgeVars
  /\ UNCHANGED backend

\* bus.clearHistory()
ClearHistory ==
  /\ eventHistory' = <<>>
  /\ UNCHANGED <<listeners, wildcardListeners, middleware, emits, nextSid>>
  /\ UNCHANGED bridgeVars
  /\ UNCHANGED outsideVars

\* ------------------------------------------------------------- specifications

\* no query has been made yet
NothingReturned == [op |-> "none"]

\* the service-side process before any frame has reached it
BackendStarted ==
  [listeners |-> <<>>, dispatches |-> <<>>, broadcasts |-> <<>>, localEmits |-> <<>>]

\* the bus and the bridge as constructed with autoConnect: false
Constructed(opts) ==
  /\ listeners = [n \in {} |-> <<>>]
  /\ wildcardListeners = <<>>
  /\ middleware = <<>>
  /\ eventHistory = <<>>
  /\ emits = <<>>
  /\ nextSid = 0
  /\ options = opts
  /\ socket = 0
  /\ sockets = <<>>
  /\ connectionStatus = "disconnected"
  /\ sent = <<>>
  /\ statusCallbacks = <<>>
  /\ notified = <<>>
  /\ returned = NothingReturned
  /\ backend = BackendStarted

\* the constructor with autoConnect (the default): connect() has run
AutoConnected(opts) ==
  /\ listeners = [n \in {} |-> <<>>]
  /\ wildcardListeners =
       (IF SyncLocalEvents(opts)
        THEN <<Entry(RelayListener(1), RelayPriority, FALSE, 1, Star)>> ELSE <<>>)
  /\ middleware = <<>>
  /\ eventHistory = <<>>
  /\ emits = <<>>
  /\ nextSid = (IF SyncLocalEvents(opts) THEN 1 ELSE 0)
  /\ options = opts
  /\ socket = 1
  /\ sockets = <<"connecting">>
  /\ connectionStatus = "connecting"
  /\ sent = <<>>
  /\ statusCallbacks = <<>>
  /\ notified = <<>>
  /\ returned = NothingReturned
  /\ backend = BackendStarted

\* the options given to the constructor: every setting of the two sync
\* flags under the first policy, and both flags set under the second
BridgeOptions ==
  [syncLocalEvents : BOOLEAN, syncRemoteEvents : BOOLEAN, policy : {1}]
  \cup [syncLocalEvents : {TRUE}, syncRemoteEvents : {TRUE}, policy : {2}]

Init == \E opts \in BridgeOptions : Constructed(opts) \/ AutoConnected(opts)

\* the bounds of the model, as guards of the calls made from outside
UserSubs == nextSid - RelayEntries
CanSubscribe == UserSubs < MaxSubs
CanSubscribeBeside == UserSubs < MaxBridgeSubs
CanEmit == Len(emits) < MaxEmits
CanEmitBeside == Len(emits) < MaxBridgeEmits
CanUse == Len(middleware) < MaxMiddleware
CanConnect == SocketConnected(socket, sockets) \/ Len(sockets) < MaxSockets
CanSendDirect == Cardinality({k \in 1..Len(sent) : sent[k].via = "direct"}) < MaxDirect

\* the bus alone: every kind of listener, no middleware
BusNext ==
  \/ \E name \in SubNames, l \in Callbacks, p \in Priorities, o \in BOOLEAN :
       CanSubscribe /\ On(name, l, p, o)
  \/ \E name \in SubNames, l \in Callbacks : Off(name, l)
  \/ \E name \in EventNames : CanEmit /\ Emit(name, "undefined")
  \/ Drain
  \/ \E e \in 1..Len(emits) : \E i \in 1..Len(emits[e].calls), ok \in BOOLEAN : Settle(e, i, ok)

\* the local code beside the bridge: persistent synchronous listeners,
\* middleware, and emits of plain names and of event objects
LocalNext ==
  \/ \E name \in SubNames, p \in Priorities : CanSubscribeBeside /\ On(name, "f", p, FALSE)
  \/ \E name \in SubNames : Off(name, "f")
  \/ \E t \in Transforms : CanUse /\ Use(t)
  \/ \E name \in BridgeEventNames, src \in LocalSources : CanEmitBeside /\ Emit(name, src)
  \/ Drain

BridgeNext ==
  \/ CanConnect /\ Connect
  \/ Disconnect
  \/ \E s \in 1..Len(sockets) : SockConnect(s)
  \/ \E s \in 1..Len(sockets) : SockDisconnect(s)
  \/ \E s \in 1..Len(sockets) : SockConnectError(s)
  \/ \E s \in 1..Len(sockets), name \in BridgeEventNames, fsrc \in FrameSources :
       CanEmitBeside /\ SockEvent(s, name, fsrc)
  \/ \E name \in EventNames : CanSendDirect /\ EmitToBackend(name)

Next == LocalNext \/ BridgeNext

\* the bridge on its bus
Spec == Init /\ [][Next]_vars

\* the bus alone: a bridge that is never connected
BusInit == Constructed([syncLocalEvents |-> FALSE, syncRemoteEvents |-> FALSE, policy |-> 1])
BusSpec == BusInit /\ [][BusNext]_vars

\* the bus alone, for the order of invocation: listeners that return and
\* listeners that throw, persistent and once, in both buckets and at both
\* priorities, with unsubscribes in between
OrderNext ==
  \/ \E name \in SubNames, l \in {"f", "g"}, p \in Priorities, o \in BOOLEAN :
       CanSubscribe /\ On(name, l, p, o)
  \/ \E name \in SubNames, l \in {"f", "g"} : Off(name, l)
  \/ Len(emits) < MaxOrderEmits /\ Emit(UserCreated, "undefined")
  \/ Drain

OrderSpec == BusInit /\ [][OrderNext]_vars

\* the bus alone, for the failures of listeners: every kind of listener in
\* both buckets; all at priority 0, so the order of invocation is the order
\* of registration
IsolationNext ==
  \/ \E name \in SubNames, l \in Callbacks : CanSubscribe /\ On(name, l, 0, FALSE)
  \/ Len(emits) < MaxOrderEmits /\ Emit(UserCreated, "undefined")
  \/ Drain
  \/ \E e \in 1..Len(emits) : \E i \in 1..Len(emits[e].calls), ok \in BOOLEAN : Settle(e, i, ok)

IsolationSpec == BusInit /\ [][IsolationNext]_vars

\* the outbound relay: local emits of plain names and of event objects
\* through the middleware, on a bridge that connects and disconnects
RelayNext ==
  \/ \E t \in Transforms : CanUse /\ Use(t)
  \/ \E name \in BridgeEventNames, src \in LocalSources : CanEmitBeside /\ Emit(name, src)
  \/ Drain
  \/ (SocketConnected(socket, sockets) \/ Len(sockets) < MaxRelaySockets) /\ Connect
  \/ Disconnect
  \/ \E s \in 1..Len(sockets) : SockConnect(s)
  \/ \E s \in 1..Len(sockets) : SockDisconnect(s)

RelaySpec == Init /\ [][RelayNext]_vars

\* the bus alone, for the middleware: one listener, transforms that return
\* and a transform that throws
MiddlewareNext ==
  \/ \E name \in SubNames : CanSubscribeBeside /\ On(name, "f", 0, FALSE)
  \/ \E t \in Transforms \cup ThrowingTransforms : CanUse /\ Use(t)
  \/ \E name \in BridgeEventNames : CanEmit /\ Emit(name, "undefined")
  \/ Drain

MiddlewareSpec == BusInit /\ [][MiddlewareNext]_vars

\* the bus alone, for the event log: more emits than the log holds, the k-th
\* with payload k, and a transform installed at any moment
HistoryNext ==
  \/ Len(emits) < MaxHistoryEmits /\ EmitData(TodoX, Len(emits) + 1)
  \/ \E t \in {"rename", "fail"} : CanUse /\ Use(t)

HistorySpec == BusInit /\ [][HistoryNext]_vars

\* the bridge alone, for its connection state: no relay in either direction,
\* status observers of every kind, explicit calls and transport events
StatusInit ==
  \E opts \in [syncLocalEvents : {FALSE}, syncRemoteEvents : {FALSE}, policy : {1}] :
    Constructed(opts) \/ AutoConnected(opts)

StatusNext ==
  \/ \E cb \in StatusObservers : Len(statusCallbacks) < MaxObservers /\ OnStatusChange(cb)
  \/ \E cb \in StatusObservers : OffStatusChange(cb)
  \/ CanConnect /\ Connect
  \/ Disconnect
  \/ \E s \in 1..Len(sockets) : SockConnect(s)
  \/ \E s \in 1..Len(sockets) : SockDisconnect(s)
  \/ \E s \in 1..Len(sockets) : SockConnectError(s)

StatusSpec == StatusInit /\ [][StatusNext]_vars

\* local listeners beside the relay: listeners that return and listeners that
\* throw, local emits of names the policy allows, blocks or does not know, on
\* a bridge in every connection state
LocalEmitNext ==
  \/ \E name \in SubNames, l \in {"f", "g"} : CanSubscribeBeside /\ On(name, l, 0, FALSE)
  \/ \E name \in BridgeEventNames : CanEmitBeside /\ Emit(name, "undefined")
  \/ Drain
  \/ Disconnect
  \/ \E s \in 1..Len(sockets) : SockConnect(s)
  \/ \E s \in 1..Len(sockets) : SockDisconnect(s)
  \/ \E s \in 1..Len(sockets) : SockConnectError(s)

\* the bridge constructed with autoConnect and both sync flags set, under
\* either policy: connect() has run and the relay listener is installed
LocalEmitInit ==
  \E opts \in {o \in BridgeOptions : o.syncLocalEvents /\ o.syncRemoteEvents} :
    AutoConnected(opts)

LocalEmitSpec == LocalEmitInit /\ [][LocalEmitNext]_vars

\* the inbound direction: frames of every name, with and without a source of
\* their own, on a bridge constructed with autoConnect under every setting
\* of the sync flags, and a local listener
InboundInit == \E opts \in BridgeOptions : AutoConnected(opts)

InboundNext ==
  \/ \E name \in SubNames : CanSubscribeBeside /\ On(name, "f", 0, FALSE)
  \/ Drain
  \/ \E s \in 1..Len(sockets) : SockConnect(s)
  \/ \E s \in 1..Len(sockets) : SockDisconnect(s)
  \/ \E s \in 1..Len(sockets), name \in BridgeEventNames, fsrc \in FrameSources :
       CanEmitBeside /\ SockEvent(s, name, fsrc)

InboundSpec == InboundInit /\ [][InboundNext]_vars

\* the matcher seen through the relay: a bridge constructed with autoConnect
\* and one pattern as its whole allow list or block list, and local emits of
\* the topics
MatcherInit ==
  \E pol \in MatcherPolicies :
    AutoConnected([syncLocalEvents |-> TRUE, syncRemoteEvents |-> FALSE, policy |-> pol])

MatcherNext ==
  \/ \E name \in MatcherTopics : CanEmitBeside /\ Emit(name, "undefined")
  \/ Drain
  \/ \E s \in 1..Len(sockets) : SockConnect(s)

MatcherSpec == MatcherInit /\ [][MatcherNext]_vars

\* the bus alone, for getHistory: logs of every length up to MaxQueryEmits
\* (the k-th event with payload k), cleared at any moment, queried without a
\* limit and with every limit from 0 to beyond the length
HistoryQueryNext ==
  \/ \E name \in EventNames : Len(emits) < MaxQueryEmits /\ EmitData(name, Len(emits) + 1)
  \/ ClearHistory
  \/ \E limit \in 0..MaxLimit : GetHistory(TRUE, limit)
  \/ GetHistory(FALSE, 0)

HistoryQuerySpec == BusInit /\ [][HistoryQueryNext]_vars

\* the service side: listeners of the inbound topic that return nothing or
\* a request of any scope, listeners of the requested topic that return
\* nothing, and inbound frames
BackendNext ==
  \/ \E ret \in BackendReturns :
       Len(backend.listeners) < MaxBackendListeners /\ BackendOn(TodoX, ret)
  \/ Len(backend.listeners) < MaxBackendListeners /\ BackendOn(UserCreated, "nothing")
  \/ \E name \in {TodoX, AdminDelete} :
       Len(backend.dispatches) < MaxDispatches /\ BackendReceive(name)
  \/ \E d \in 1..Len(backend.dispatches) : BackendFulfil(d)

BackendSpec == BusInit /\ [][BackendNext]_vars

\* the bus alone, for listeners that call the bus while they are dispatched:
\* f, s and x in both buckets, all at priority 0, and several emits
SnapshotNext ==
  \/ \E name \in SubNames, l \in {"f"} \cup ReentrantCallbacks :
       CanSubscribe /\ On(name, l, 0, FALSE)
  \/ Len(emits) < MaxSnapshotEmits /\ Emit(UserCreated, "undefined")
  \/ Drain

SnapshotSpec == BusInit /\ [][SnapshotNext]_vars

\* the bus alone, for the middleware pipeline: several transforms that do not
\* commute, a listener on '*', 'user.created' or 'todo.x', and emits of plain
\* names and of event objects
PipelineNext ==
  \/ \E name \in SubNames \cup {TodoX} : CanSubscribeBeside /\ On(name, "f", 0, FALSE)
  \/ \E t \in PipelineTransforms : Len(middleware) < MaxPipeline /\ Use(t)
  \/ \E name \in {UserCreated, TodoX}, src \in LocalSources : CanEmitBeside /\ Emit(name, src)
  \/ Drain

PipelineSpec == BusInit /\ [][PipelineNext]_vars

\* the bus alone, for getListeners: persistent and once subscriptions in both
\* buckets, unsubscribes, an emit that uses up the once subscriptions, and
\* the query at any moment
CountsNext ==
  \/ \E name \in SubNames, o \in BOOLEAN : CanSubscribe /\ On(name, "f", 0, o)
  \/ \E name \in SubNames : Off(name, "f")
  \/ Len(emits) < MaxOrderEmits /\ Emit(UserCreated, "undefined")
  \/ Drain
  \/ GetListeners

CountsSpec == BusInit /\ [][CountsNext]_vars

\* ------------------------------------------------------------- properties

Emits == 1..Len(emits)
Calls(e) == emits[e].calls
Pos(e) == 1..Len(emits[e].calls)
RelayObserved(e) == \E i \in Pos(e) : IsRelay(Calls(e)[i].entry.listener)
RelayedFrames(e) == {k \in 1..Len(sent) : sent[k].via = "relay" /\ sent[k].eid = e}
\* the entry object with identity sid is in a bucket of the bus
Registered(sid) ==
  \/ \E i \in 1..Len(wildcardListeners) : wildcardListeners[i].sid = sid
  \/ \E n \in DOMAIN listeners : \E i \in 1..Len(listeners[n]) : listeners[n][i].sid = sid
AllowMatched(name) ==
  \E i \in 1..Len(Policies[options.policy].allowedEvents) :
    MatchesPattern(Policies[options.policy].allowedEvents[i], name)
BlockMatched(name) ==
  \E i \in 1..Len(Policies[options.policy].blockedEvents) :
    MatchesPattern(Policies[options.policy].blockedEvents[i], name)

\* C1: loop prevention. Every event the bridge emits for an inbound frame
\* carries metadata.source = 'backend', and no relay listener sends a frame
\* for that emission, whatever its name.
C1_LoopPrevention ==
  \A e \in Emits :
    emits[e].origin = "inbound" =>
      /\ emits[e].arg.source = "backend"
      /\ RelayedFrames(e) = {}

\* What holds of C1: an event that reaches the relay listener with the tag
\* still on it is not sent.
C1_TaggedNotRelayed ==
  \A e \in Emits :
    emits[e].origin = "inbound" =>
      /\ emits[e].arg.source = "backend"
      /\ (emits[e].ev.source = "backend" => RelayedFrames(e) = {})

\* C2: outbound filter policy. A frame the relay sends carries a name that
\* matches an allow pattern and no block pattern; and an untagged event the
\* relay observes while the socket is connected is sent exactly when its name
\* matches an allow pattern and no block pattern (block wins over allow, no
\* allow match means not sent).
C2_OutboundFilter ==
  /\ \A k \in 1..Len(sent) :
        sent[k].via = "relay" => AllowMatched(sent[k].name) /\ ~BlockMatched(sent[k].name)
  /\ \A e \in Emits :
        (RelayObserved(e) /\ emits[e].conn /\ emits[e].ev.source # "backend") =>
          ((\E k \in RelayedFrames(e) : sent[k].name = emits[e].ev.name)
             <=> (AllowMatched(emits[e].ev.name) /\ ~BlockMatched(emits[e].ev.name)))

\* C2 witness: under allow = ['*'], block = ['admin.*'] the relay observed a
\* local 'admin.delete' on a connected socket and sent nothing.
C2_Witness ==
  \E e \in Emits :
    /\ options.policy = 1
    /\ emits[e].origin = "local"
    /\ emits[e].ev = [name |-> AdminDelete, data |-> "d", source |-> "undefined"]
    /\ RelayObserved(e)
    /\ emits[e].conn
    /\ RelayedFrames(e) = {}

\* C3: priority ordering within a bucket. In every emit, of two listeners of
\* the same bucket the one invoked first has the higher priority, or the same
\* priority and the earlier registration.
C3_PriorityOrder ==
  \A e \in Emits : \A i, j \in Pos(e) :
    (i < j /\ Calls(e)[i].entry.topic = Calls(e)[j].entry.topic) =>
      \/ Calls(e)[i].entry.priority > Calls(e)[j].entry.priority
      \/ /\ Calls(e)[i].entry.priority = Calls(e)[j].entry.priority
         /\ Calls(e)[i].entry.sid < Calls(e)[j].entry.sid

\* C3 witness: an emit invoked, in one bucket, a listener of higher priority
\* before one of lower priority that had been registered earlier.
C3_Witness ==
  \E e \in Emits : \E i, j \in Pos(e) :
    /\ i < j
    /\ Calls(e)[i].entry.topic = Calls(e)[j].entry.topic
    /\ Calls(e)[i].entry.priority > Calls(e)[j].entry.priority
    /\ Calls(e)[i].entry.sid > Calls(e)[j].entry.sid

\* C4: bucket concatenation. In every emit no topic-specific listener is
\* invoked before a match-all listener.
C4_WildcardFirst ==
  \A e \in Emits : \A i, j \in Pos(e) :
    (Calls(e)[i].entry.topic # Star /\ Calls(e)[j].entry.topic = Star) => j < i

\* C4 witness: a match-all listener of priority 0 was invoked before a
\* topic-specific listener of priority 10.
C4_Witness ==
  \E e \in Emits : \E i, j \in Pos(e) :
    /\ i < j
    /\ Calls(e)[i].entry.topic = Star
    /\ Calls(e)[j].entry.topic # Star
    /\ Calls(e)[i].entry.priority < Calls(e)[j].entry.priority

\* C5: the outbound relay runs last. In every emit, no listener other than a
\* relay listener is invoked after a relay listener.
C5_RelayLast ==
  \A e \in Emits : \A i, j \in Pos(e) :
    (i < j /\ IsRelay(Calls(e)[i].entry.listener)) => IsRelay(Calls(e)[j].entry.listener)

\* C6: once semantics, sequential emits. A once subscription on a named topic
\* that an emit invoked is not invoked by a later emit that was issued after
\* every earlier emit had settled.
C6_OnceSequential ==
  \A e1, e2 \in Emits : \A i \in Pos(e1), j \in Pos(e2) :
    (e1 < e2 /\ emits[e2].seq /\ Calls(e1)[i].entry.once /\ Calls(e1)[i].entry.topic # Star)
      => Calls(e1)[i].entry.sid # Calls(e2)[j].entry.sid

\* C7: once semantics, overlapping emits. A once subscription on a named topic
\* whose listener has not failed is not invoked by a second emit that was
\* issued before the first had settled.
C7_OnceOverlapping ==
  \A e1, e2 \in Emits : \A i \in Pos(e1), j \in Pos(e2) :
    (/\ e1 < e2
     /\ ~emits[e2].seq
     /\ Calls(e1)[i].entry.once
     /\ Calls(e1)[i].entry.topic # Star
     /\ Calls(e1)[i].st \notin {"caught", "rejected"})
      => Calls(e1)[i].entry.sid # Calls(e2)[j].entry.sid

\* C8: once removal regardless of outcome. Once an emit has settled, no once
\* subscription on a named topic that it invoked is still registered, whether
\* the listener ended normally or failed.
C8_OnceRemovedAnyOutcome ==
  \A e \in Emits : \A i \in Pos(e) :
    (Settled(e) /\ Calls(e)[i].entry.once /\ Calls(e)[i].entry.topic # Star)
      => ~Registered(Calls(e)[i].entry.sid)

\* What holds of C8: the subscription is gone when the listener ended normally.
C8_OnceRemovedOnSuccess ==
  \A e \in Emits : \A i \in Pos(e) :
    (Calls(e)[i].st = "done" /\ Calls(e)[i].entry.once /\ Calls(e)[i].entry.topic # Star)
      => ~Registered(Calls(e)[i].entry.sid)

\* C9: once on the match-all topic. A once subscription on '*' that an emit
\* invoked is not invoked by a later emit issued after every earlier emit had
\* settled, and is not registered once its emit has settled normally.
C9_OnceWildcard ==
  /\ \A e1, e2 \in Emits : \A i \in Pos(e1), j \in Pos(e2) :
        (e1 < e2 /\ emits[e2].seq /\ Calls(e1)[i].entry.once /\ Calls(e1)[i].entry.topic = Star)
          => Calls(e1)[i].entry.sid # Calls(e2)[j].entry.sid
  /\ \A e \in Emits : \A i \in Pos(e) :
        (Calls(e)[i].st = "done" /\ Calls(e)[i].entry.once /\ Calls(e)[i].entry.topic = Star)
          => ~Registered(Calls(e)[i].entry.sid)

\* C10: listener isolation. Every emit invokes every listener of the match-all
\* bucket and of the bucket of the processed name, also when some of them throw
\* or reject, and the promise emit returns never rejects.
C10_Isolation ==
  [][ /\ (Len(emits') = Len(emits) + 1 =>
            LET r == emits'[Len(emits')]
                named == IF r.ev.name \in DOMAIN listeners THEN listeners[r.ev.name] ELSE <<>>
            IN  /\ \A k \in 1..Len(wildcardListeners) :
                      \E i \in 1..Len(r.calls) : r.calls[i].entry = wildcardListeners[k]
                /\ \A k \in 1..Len(named) :
                      \E i \in 1..Len(r.calls) : r.calls[i].entry = named[k])
      /\ \A e \in 1..Len(emits') : EmitOutcome(e)' # "rejected" ]_vars

\* C10 witness: an emit has resolved in which a listener that failed (threw or
\* rejected) was followed by a listener that ran to its end.
C10_Witness ==
  \E e \in Emits : \E i, j \in Pos(e) :
    /\ i < j
    /\ EmitOutcome(e) = "resolved"
    /\ Calls(e)[i].st = "caught"
    /\ Calls(e)[j].st = "done"

\* C11: a middleware error aborts the emission. An emit call made while a
\* throwing transform is installed returns a promise that rejects, invokes no
\* listener, and leaves the event log (and the frames sent) as they were.
C11_MiddlewareAbort ==
  [][ (/\ Len(emits') = Len(emits) + 1
       /\ \E i \in 1..Len(middleware) : middleware[i] \in ThrowingTransforms)
      => /\ emits'[Len(emits')].calls = <<>>
         /\ \A e \in {Len(emits) + 1} : EmitOutcome(e)' = "rejected"
         /\ eventHistory' = eventHistory
         /\ sent' = sent ]_vars

\* C11 witness: with a listener registered and an event already in the log, an
\* emit was aborted by the middleware: rejected, no call, the log one short.
C11_Witness ==
  \E e \in Emits :
    /\ emits[e].thrown
    /\ EmitOutcome(e) = "rejected"
    /\ emits[e].calls = <<>>
    /\ wildcardListeners # <<>>
    /\ eventHistory # <<>>
    /\ Len(eventHistory) < Len(emits)

\* the processed events of the emits that reached addToHistory, oldest first
LoggedEvents ==
  LET logged == SelectSeq(emits, LAMBDA r : ~r.thrown)
  IN  [k \in 1..Len(logged) |-> logged[k].ev]

\* C12: bounded history. The event log never holds more than maxHistorySize
\* entries, and it is exactly the most recent min(k, maxHistorySize) of the k
\* processed events, oldest first.
C12_BoundedHistory ==
  LET k == Len(LoggedEvents)
      n == IF k < maxHistorySize THEN k ELSE maxHistorySize
  IN  /\ Len(eventHistory) <= maxHistorySize
      /\ eventHistory = SubSeq(LoggedEvents, k - n + 1, k)

\* C12 witness: more events than maxHistorySize have been logged; the log is
\* full and its oldest entry is no longer the first event.
C12_Witness ==
  /\ Len(LoggedEvents) > maxHistorySize
  /\ Len(eventHistory) = maxHistorySize
  /\ eventHistory[1].data = Len(LoggedEvents) - maxHistorySize + 1
  /\ eventHistory[Len(eventHistory)].data = Len(LoggedEvents)

\* callback l has an entry in the bucket that off(name, l) looks at
HasSubscription(name, l) ==
  IF name = Star
  THEN \E i \in 1..Len(wildcardListeners) : wildcardListeners[i].listener = l
  ELSE /\ name \in DOMAIN listeners
       /\ \E i \in 1..Len(listeners[name]) : listeners[name][i].listener = l

\* C13: idempotent unsubscribe. In every state, off(name, l) for a callback or
\* a topic without subscription leaves both buckets as they are, and a second
\* call of off(name, l) (the handle on() returned) right after the first
\* changes nothing more.
C13_IdempotentUnsubscribe ==
  \A name \in SubNames \cup EventNames, l \in Callbacks :
    LET wl1 == OffWildcard(wildcardListeners, name, l)
        ls1 == OffNamed(listeners, name, l)
    IN  /\ ~HasSubscription(name, l) => (wl1 = wildcardListeners /\ ls1 = listeners)
        /\ OffWildcard(wl1, name, l) = wl1
        /\ OffNamed(ls1, name, l) = ls1

\* C13 witness: an entry has been unsubscribed from '*' by off (it is gone and
\* no emit has run) while another callback is still in that bucket, and f
\* has no entry there: the next call of off('*', f) finds nothing to remove.
C13_Witness ==
  /\ emits = <<>>
  /\ wildcardListeners # <<>>
  /\ ~HasSubscription(Star, "f")
  /\ \E sid \in 1..nextSid : ~Registered(sid)

\* C14: emit settles after all listeners. The promise of an emit is resolved
\* only when every invocation of that emit has ended (normally or in the
\* catch block), and it is pending while an invocation waits for a listener's
\* promise or for its queued continuation.
C14_SettlesAfterListeners ==
  \A e \in Emits :
    /\ EmitOutcome(e) = "resolved" =>
          \A i \in Pos(e) : Calls(e)[i].st \in {"done", "caught"}
    /\ (\E i \in Pos(e) : Calls(e)[i].st \in {"pending", "await", "rejected"}) =>
          EmitOutcome(e) = "pending"

\* C14 witness: one listener of an emit has failed and been caught, another
\* has returned a promise that is not settled, and the emit is pending.
C14_Witness ==
  \E e \in Emits : \E i, j \in Pos(e) :
    /\ Calls(e)[i].st = "caught"
    /\ Calls(e)[j].st = "pending"
    /\ EmitOutcome(e) = "pending"

\* one call of every registered status callback, in order, with status st
EachOnce(cbs, st) == [k \in 1..Len(cbs) |-> [callback |-> cbs[k], status |-> st]]

\* C15: status notification. On every step that changes connectionStatus, the
\* callbacks called are exactly the callbacks registered before the step, each
\* once, with the new status.
C15_StatusNotification ==
  [][ connectionStatus' # connectionStatus =>
        notified' = EachOnce(statusCallbacks, connectionStatus') ]_vars

\* What holds of C15: when no registered callback removes itself, every
\* registered callback is called with the new status, also behind a callback
\* that throws.
C15_NotifiedWithoutSelfRemoval ==
  [][ (/\ connectionStatus' # connectionStatus
       /\ \A k \in 1..Len(statusCallbacks) : statusCallbacks[k] # "u") =>
        \A k \in 1..Len(statusCallbacks) :
          \E i \in 1..Len(notified') :
            notified'[i] = [callback |-> statusCallbacks[k], status |-> connectionStatus'] ]_vars

\* C16: connection lifecycle. connectionStatus is one of the three states; in
\* every state where it is not 'connected', connect() moves it to
\* 'connecting'; a transport 'connect' moves it to 'connected'; a transport
\* 'connect_error' or 'disconnect', and disconnect() with a socket, move it to
\* 'disconnected'.
C16_Lifecycle ==
  /\ [](connectionStatus \in {"disconnected", "connecting", "connected"})
  /\ [](connectionStatus # "connected" =>
          ENABLED (Connect /\ connectionStatus' = "connecting"))
  /\ [][ /\ \A s \in 1..Len(sockets) :
              /\ SockConnect(s) => connectionStatus' = "connected"
              /\ SockConnectError(s) => connectionStatus' = "disconnected"
              /\ SockDisconnect(s) => connectionStatus' = "disconnected"
         /\ (socket # 0 /\ Disconnect) => connectionStatus' = "disconnected" ]_vars

\* What holds of C16: the same, with connect() judged by the socket the bridge
\* holds (this.socket?.connected) instead of by connectionStatus.
C16_LifecycleBySocket ==
  /\ [](connectionStatus \in {"disconnected", "connecting", "connected"})
  /\ [](~SocketConnected(socket, sockets) =>
          ENABLED (Connect /\ connectionStatus' = "connecting"))
  /\ [][ /\ \A s \in 1..Len(sockets) :
              /\ SockConnect(s) => connectionStatus' = "connected"
              /\ SockConnectError(s) => connectionStatus' = "disconnected"
              /\ SockDisconnect(s) => connectionStatus' = "disconnected"
         /\ (socket # 0 /\ Disconnect) => connectionStatus' = "disconnected" ]_vars

C17_TransportFailureStatus ==
  [][ \A s \in 1..Len(sockets) :
        (SockConnectError(s) \/ SockDisconnect(s)) =>
          /\ connectionStatus' = "disconnected"
          /\ \A i \in 1..Len(notified') : notified'[i].status = "disconnected"
          /\ (\A k \in 1..Len(statusCallbacks) : statusCallbacks[k] # "u") =>
               notified' = EachOnce(statusCallbacks, "disconnected") ]_vars

\* a relay listener of the bridge is installed on the bus
RelayInstalled == \E i \in 1..Len(wildcardListeners) : IsRelay(wildcardListeners[i].listener)

\* C18: local emission succeeds whatever the bridge does. With a relay
\* listener installed, an emit by local code invokes every listener of the
\* match-all bucket and of the bucket of its name, in every connection state
\* and whether or not the relay sends a frame; no emit promise rejects, and
\* every emit promise is resolved once the queued continuations have run.
C18_LocalEmitSucceeds ==
  /\ [](~MicrotaskQueued => \A e \in Emits : EmitOutcome(e) = "resolved")
  /\ [][ /\ (/\ Len(emits') = Len(emits) + 1
              /\ emits'[Len(emits')].origin = "local"
              /\ RelayInstalled) =>
               LET r == emits'[Len(emits')]
                   named == IF r.ev.name \in DOMAIN listeners
                            THEN listeners[r.ev.name] ELSE <<>>
               IN  /\ ~r.thrown
                   /\ \A k \in 1..Len(wildcardListeners) :
                         \E i \in 1..Len(r.calls) : r.calls[i].entry = wildcardListeners[k]
                   /\ \A k \in 1..Len(named) :
                         \E i \in 1..Len(r.calls) : r.calls[i].entry = named[k]
         /\ \A e \in 1..Len(emits') : EmitOutcome(e)' # "rejected" ]_vars

\* C18 witness: on a connected socket the relay observed a local event that the
\* policy rejects and sent nothing; a local listener of the same emit ran to
\* its end and the emit resolved.
C18_Witness ==
  \E e \in Emits : \E i, j \in Pos(e) :
    /\ emits[e].origin = "local"
    /\ emits[e].conn
    /\ ~IsEventAllowed(options, emits[e].ev.name)
    /\ RelayedFrames(e) = {}
    /\ IsRelay(Calls(e)[i].entry.listener)
    /\ Calls(e)[j].entry.listener = "f"
    /\ Calls(e)[j].st = "done"
    /\ EmitOutcome(e) = "resolved"

\* C18, second case: the same with an allowed event while the bridge is
\* disconnected.
C18_WitnessNotConnected ==
  \E e \in Emits : \E i, j \in Pos(e) :
    /\ emits[e].origin = "local"
    /\ ~emits[e].conn
    /\ IsEventAllowed(options, emits[e].ev.name)
    /\ RelayedFrames(e) = {}
    /\ i < j
    /\ IsRelay(Calls(e)[i].entry.listener)
    /\ Calls(e)[j].st = "done"
    /\ EmitOutcome(e) = "resolved"

\* C19: inbound relay. With syncRemoteEvents, an 'event' frame makes one emit
\* on the local bus of an event with the frame's name and data and with
\* metadata.source = 'backend', whatever source the frame carries and whatever
\* the outbound policy says of the name; without syncRemoteEvents a frame
\* makes no emit, and no emit of the bus comes from a frame.
C19_InboundRelay ==
  /\ [](~options.syncRemoteEvents => \A e \in Emits : emits[e].origin # "inbound")
  /\ [][ \A s \in 1..Len(sockets), name \in BridgeEventNames, fsrc \in FrameSources :
            SockEvent(s, name, fsrc) =>
              IF options.syncRemoteEvents
              THEN /\ Len(emits') = Len(emits) + 1
                   /\ emits'[Len(emits')].origin = "inbound"
                   /\ emits'[Len(emits')].arg =
                        [name |-> name, data |-> "d", source |-> "backend"]
                   /\ ~emits'[Len(emits')].thrown
              ELSE emits' = emits ]_vars

\* C19 witness: a frame named 'admin.delete', which the outbound policy
\* blocks, has been emitted locally with the tag, and a local listener has run.
C19_Witness ==
  \E e \in Emits : \E i \in Pos(e) :
    /\ emits[e].origin = "inbound"
    /\ emits[e].arg = [name |-> AdminDelete, data |-> "d", source |-> "backend"]
    /\ ~IsEventAllowed(options, AdminDelete)
    /\ Calls(e)[i].entry.listener = "f"
    /\ Calls(e)[i].st = "done"

\* the match as the claim states it, character by character: a pattern with
\* a final '*' matches the topics that begin with the characters before that
\* '*'; any other pattern matches the topic equal to it
ClaimedMatch(pattern, topic) ==
  IF Len(pattern) > 0 /\ pattern[Len(pattern)] = "*"
  THEN /\ Len(topic) >= Len(pattern) - 1
       /\ \A i \in 1..(Len(pattern) - 1) : topic[i] = pattern[i]
  ELSE /\ Len(topic) = Len(pattern)
       /\ \A i \in 1..Len(pattern) : topic[i] = pattern[i]

\* the one pattern of the bridge's policy, and whether it is the allow entry
PolicyPattern ==
  LET pol == Policies[options.policy]
  IN  IF pol.blockedEvents = <<>> THEN pol.allowedEvents[1] ELSE pol.blockedEvents[1]
PolicyAllows == Policies[options.policy].blockedEvents = <<>>

\* the relay sent a frame for emit e
Relayed(e) == \E k \in RelayedFrames(e) : sent[k].name = emits[e].ev.name

\* C20: topic matcher. For every pattern and topic of the sets, an event the
\* relay observes on a connected socket is sent, when the pattern is the allow
\* list, exactly if the claimed match holds, and when the pattern is the block
\* list, exactly if it does not hold; 'admin.*' matches 'admin.' and
\* 'admin.delete' but not 'admin' or 'administrator', '*' matches every
\* topic, and '*.delete' matches only the topic '*.delete'.
C20_TopicMatcher ==
  \A e \in Emits :
    (options.policy \in MatcherPolicies /\ RelayObserved(e) /\ emits[e].conn) =>
      LET topic == emits[e].ev.name
          matched == (Relayed(e) <=> PolicyAllows)
      IN  /\ matched <=> ClaimedMatch(PolicyPattern, topic)
          /\ PolicyPattern = AdminStar =>
                (matched <=> topic \in {AdminDot, AdminDelete})
          /\ PolicyPattern = Star => matched
          /\ PolicyPattern = StarDotDelete => (matched <=> topic = StarDotDelete)

\* C20 witness: with allow = ['admin.*'] the relay observed 'administrator' on
\* a connected socket and sent nothing.
C20_Witness ==
  \E e \in Emits :
    /\ options.policy \in MatcherPolicies
    /\ PolicyAllows
    /\ PolicyPattern = AdminStar
    /\ emits[e].ev.name = Administrator
    /\ RelayObserved(e)
    /\ emits[e].conn
    /\ ~Relayed(e)

\* C20, second case: with block = ['admin.*'] under allow = ['*'] the relay
\* sent 'admin' and did not send 'admin.'.
C20_WitnessBlock ==
  \E e \in Emits :
    /\ options.policy \in MatcherPolicies
    /\ ~PolicyAllows
    /\ PolicyPattern = AdminStar
    /\ emits[e].ev.name = Admin
    /\ emits[e].conn
    /\ Relayed(e)

\* the n most recent entries of log h, oldest first
MostRecent(h, n) == [i \in 1..n |-> h[Len(h) - n + i]]

\* C21: getHistory(limit). For every log and every limit, getHistory(limit)
\* returns the most recent min(limit, size) entries of the log, oldest first
\* (none for limit = 0), and getHistory() returns all entries.
C21_GetHistory ==
  [][ /\ \A limit \in 0..MaxLimit :
            GetHistory(TRUE, limit) =>
              returned'.value =
                MostRecent(eventHistory,
                           IF limit < Len(eventHistory) THEN limit ELSE Len(eventHistory))
      /\ GetHistory(FALSE, 0) => returned'.value = eventHistory ]_vars

\* What holds of C21: the same for every limit of at least 1 and for the call
\* without a limit; getHistory(0) returns the whole log.
C21_GetHistoryPositive ==
  [][ /\ \A limit \in 1..MaxLimit :
            GetHistory(TRUE, limit) =>
              returned'.value =
                MostRecent(eventHistory,
                           IF limit < Len(eventHistory) THEN limit ELSE Len(eventHistory))
      /\ GetHistory(TRUE, 0) => returned'.value = eventHistory
      /\ GetHistory(FALSE, 0) => returned'.value = eventHistory ]_vars

\* the frames sent, and the local emits made, for request k of dispatch d
BroadcastsFor(d, k) ==
  {i \in 1..Len(backend.broadcasts) :
     backend.broadcasts[i].dispatch = d /\ backend.broadcasts[i].request = k}
LocalEmitsFor(d, k) ==
  {i \in 1..Len(backend.localEmits) :
     backend.localEmits[i].dispatch = d /\ backend.localEmits[i].request = k}

\* C22: broadcast-request protocol. Every BroadcastRequest returned by a
\* listener invoked for an inbound-triggered emit is fulfilled by the step
\* that follows the settling of that emit, and by no other: before that step
\* nothing has been sent or emitted for it; after it, for scope 'local' the
\* local listeners of the requested event have run once and nothing was sent,
\* for 'broadcast' one frame was sent and no local listener ran, for 'both'
\* one frame was sent and the local listeners ran once (a local run invokes
\* the listeners registered for the requested event at that moment).
C22_BroadcastRequest ==
  /\ [](\A d \in 1..Len(backend.dispatches) :
          LET dis == backend.dispatches[d]
          IN  /\ Len(dis.requests) =
                   Cardinality({i \in 1..Len(dis.called) : dis.called[i].returns \in Scopes})
              /\ \A k \in 1..Len(dis.requests) :
                   LET sc == dis.requests[k].scope
                       frames == BroadcastsFor(d, k)
                       locals == LocalEmitsFor(d, k)
                   IN  IF dis.phase = "settled"
                       THEN frames = {} /\ locals = {}
                       ELSE /\ Cardinality(frames) = (IF sc \in {"broadcast", "both"} THEN 1 ELSE 0)
                            /\ Cardinality(locals) = (IF sc \in {"local", "both"} THEN 1 ELSE 0)
                            /\ \A i \in frames : backend.broadcasts[i].name = dis.requests[k].target
                            /\ \A i \in locals :
                                 backend.localEmits[i].name = dis.requests[k].target)
  /\ [][ /\ \A d \in 1..Len(backend.dispatches) :
              backend.dispatches[d].phase = "settled" =>
                backend'.dispatches[d].phase = "fulfilled"
         /\ \A i \in (Len(backend.localEmits) + 1)..Len(backend'.localEmits) :
              backend'.localEmits[i].calls =
                BackendMatched(backend.listeners, backend'.localEmits[i].name) ]_vars

\* C22 witness: a dispatch has been fulfilled whose listeners returned a
\* request of scope 'broadcast' and one of scope 'local': one frame has been
\* sent, for the first, and the listener of the requested event has run once,
\* for the second.
C22_Witness ==
  \E d \in 1..Len(backend.dispatches) :
    /\ backend.dispatches[d].phase = "fulfilled"
    /\ Len(backend.dispatches[d].requests) = 2
    /\ backend.dispatches[d].requests[1].scope = "broadcast"
    /\ backend.dispatches[d].requests[2].scope = "local"
    /\ Len(backend.broadcasts) = 1
    /\ Len(backend.localEmits) = 1

\* C23: the outbound relay is gated by local-sync. Without syncLocalEvents no
\* relay listener is on the bus and no frame is ever sent by the relay,
\* whatever connect, disconnect and emit calls are made; with syncLocalEvents
\* every connect() has put a relay listener into the match-all bucket, and
\* relay listeners are in no other bucket.
C23_LocalSyncGate ==
  /\ ~options.syncLocalEvents =>
        /\ ~RelayInstalled
        /\ \A k \in 1..Len(sent) : sent[k].via # "relay"
  /\ (options.syncLocalEvents /\ Len(sockets) > 0) =>
        \A s \in 1..Len(sockets) :
          \E i \in 1..Len(wildcardListeners) :
            /\ wildcardListeners[i].listener = RelayListener(s)
            /\ wildcardListeners[i].topic = Star
  /\ \A n \in DOMAIN listeners : \A i \in 1..Len(listeners[n]) :
        ~IsRelay(listeners[n][i].listener)

\* C23 witness: without syncLocalEvents, a local emit of an event the policy
\* allows was made while the socket was connected, and nothing has been sent.
C23_Witness ==
  \E e \in Emits :
    /\ ~options.syncLocalEvents
    /\ emits[e].origin = "local"
    /\ emits[e].conn
    /\ emits[e].ev.source # "backend"
    /\ IsEventAllowed(options, emits[e].ev.name)
    /\ sent = <<>>

\* C24: dispatch snapshot. The listeners an emit invokes are exactly the
\* entries of the match-all bucket and of the bucket of its name at the
\* moment the emit reads them, in that order: an entry created by a listener
\* during the dispatch is not invoked, an entry removed during the dispatch
\* is still invoked; and after the dispatch the buckets hold the change
\* (f subscribed when s ran, f unsubscribed when x ran), which is what every
\* later emit reads.
C24_DispatchSnapshot ==
  [][ Len(emits') = Len(emits) + 1 =>
        LET r == emits'[Len(emits')]
            named == IF r.ev.name \in DOMAIN listeners THEN listeners[r.ev.name] ELSE <<>>
            called(l) == \E i \in 1..Len(r.calls) : r.calls[i].entry.listener = l
        IN  /\ [i \in 1..Len(r.calls) |-> r.calls[i].entry] = wildcardListeners \o named
            /\ \A i \in 1..Len(r.calls) : r.calls[i].entry.sid <= nextSid
            /\ (called("s") /\ ~called("x")) => HasSubscription(UserCreated, "f")'
            /\ (called("x") /\ ~called("s")) => ~HasSubscription(UserCreated, "f")'
            /\ (~called("s") /\ ~called("x")) =>
                  (listeners' = listeners /\ wildcardListeners' = wildcardListeners) ]_vars

\* C24 witness: an emit invoked x and, after it, f, which x had just
\* unsubscribed; the next emit did not invoke f.
C24_Witness ==
  \E e1, e2 \in Emits : \E i, j \in Pos(e1) :
    /\ e2 = e1 + 1
    /\ i < j
    /\ Calls(e1)[i].entry.listener = "x"
    /\ Calls(e1)[j].entry.listener = "f"
    /\ \A k \in Pos(e2) : Calls(e2)[k].entry.listener # "f"

\* C24, second case: an emit invoked s, which subscribed f, and did not
\* invoke f; the next emit invoked that entry of f.
C24_WitnessSubscribed ==
  \E e1, e2 \in Emits : \E i \in Pos(e1), j \in Pos(e2) :
    /\ e2 = e1 + 1
    /\ Calls(e1)[i].entry.listener = "s"
    /\ \A k \in Pos(e1) : Calls(e1)[k].entry.listener # "f"
    /\ Calls(e2)[j].entry.listener = "f"
    /\ \A k \in Pos(e1) : Calls(e2)[j].entry.sid > Calls(e1)[k].entry.sid

\* C25: concurrent sibling dispatch. The step that calls emit calls every
\* matched listener, in invocation order, before emit waits for any of them,
\* also behind a listener that returned a promise; a promise that does not
\* settle keeps the emit pending and nothing else: the continuations of its
\* siblings run at the next microtask checkpoint all the same.
C25_ConcurrentSiblings ==
  [][ /\ Len(emits') = Len(emits) + 1 =>
            LET r == emits'[Len(emits')]
                named == IF r.ev.name \in DOMAIN listeners THEN listeners[r.ev.name] ELSE <<>>
                snap == wildcardListeners \o named
            IN  /\ Len(r.calls) = Len(snap)
                /\ \A i \in 1..Len(snap) :
                      /\ r.calls[i].entry = snap[i]
                      /\ r.calls[i].st \in {"await", "caught", "pending"}
                /\ (\E i \in 1..Len(snap) : r.calls[i].st = "pending") =>
                      \A e \in {Len(emits) + 1} : EmitOutcome(e)' = "pending"
      /\ Drain =>
            \A e \in Emits : \A i \in Pos(e) :
              /\ Calls(e)[i].st = "await" => emits'[e].calls[i].st = "done"
              /\ Calls(e)[i].st = "pending" => emits'[e].calls[i].st = "pending" ]_vars

\* C25 witness: a listener of an emit returned a promise that has not settled;
\* a sibling invoked after it has run to its end, and the emit is pending.
C25_Witness ==
  \E e \in Emits : \E i, j \in Pos(e) :
    /\ i < j
    /\ Calls(e)[i].st = "pending"
    /\ Calls(e)[j].st = "done"
    /\ EmitOutcome(e) = "pending"

\* the result of the first i transforms of mw, applied in the order of mw
RECURSIVE PipelineStage(_, _, _)
PipelineStage(mw, i, ev) ==
  IF i = 0 THEN ev ELSE ApplyTransform(mw[i], PipelineStage(mw, i - 1, ev))

\* C26: middleware pipeline. The event an emit processes is the result of the
\* transforms applied in the order of their use calls, each to the result of
\* the one before; that event is the one appended to the log, and the
\* listeners invoked are the match-all bucket and the bucket of its name.
C26_MiddlewarePipeline ==
  [][ Len(emits') = Len(emits) + 1 =>
        LET r == emits'[Len(emits')]
            final == PipelineStage(middleware, Len(middleware), r.arg)
            named == IF final.name \in DOMAIN listeners THEN listeners[final.name] ELSE <<>>
        IN  /\ r.ev = final
            /\ eventHistory' # <<>>
            /\ eventHistory'[Len(eventHistory')] = final
            /\ [i \in 1..Len(r.calls) |-> r.calls[i].entry] = wildcardListeners \o named ]_vars

\* C26 witness: with rename installed before mark, an emit of 'todo.x' was
\* processed to a 'user.created' event tagged 'backend' (mark saw the renamed
\* event), logged as such, and handed to the listener of 'user.created'.
C26_Witness ==
  \E e \in Emits : \E i \in Pos(e) :
    /\ middleware = <<"rename", "mark">>
    /\ emits[e].arg = [name |-> TodoX, data |-> "d", source |-> "undefined"]
    /\ emits[e].ev = [name |-> UserCreated, data |-> "d", source |-> "backend"]
    /\ eventHistory[Len(eventHistory)] = emits[e].ev
    /\ Calls(e)[i].entry.topic = UserCreated

\* C27: wire frame of the outbound relay. Every frame the bridge sends for a
\* relayed local event carries the event's name, data, timestamp and metadata.
C27_WireFrame ==
  \A k \in 1..Len(sent) :
    sent[k].via = "relay" =>
      /\ {"name", "data", "timestamp", "metadata"} \subseteq WireKeys(sent[k])
      /\ \E e \in Emits :
            /\ sent[k].eid = e
            /\ sent[k].name = emits[e].ev.name
            /\ sent[k].data = emits[e].ev.data

\* What holds of C27: a relayed frame carries the name and the data of the
\* event the relay listener was handed, and nothing else.
C27_NameAndData ==
  \A k \in 1..Len(sent) :
    sent[k].via = "relay" =>
      /\ WireKeys(sent[k]) = {"name", "data"}
      /\ \E e \in Emits :
            /\ sent[k].eid = e
            /\ sent[k].name = emits[e].ev.name
            /\ sent[k].data = emits[e].ev.data

\* C28: listener counts. A topic once subscribed stays a key of the registry;
\* getListeners returns, for every key of the registry, the number of entries
\* in its bucket, and under '*' the number of entries in the match-all
\* bucket; the call changes neither the buckets, nor the middleware, nor the
\* event log.
C28_ListenerCounts ==
  [][ /\ DOMAIN listeners \subseteq DOMAIN listeners'
      /\ \A name \in SubNames \ {Star}, o \in BOOLEAN :
            On(name, "f", 0, o) => name \in DOMAIN listeners'
      /\ (returned' # returned /\ returned'.op = "getListeners") =>
            /\ DOMAIN returned'.value = DOMAIN listeners \cup {Star}
            /\ \A n \in DOMAIN listeners : returned'.value[n] = Len(listeners[n])
            /\ returned'.value[Star] = Len(wildcardListeners)
            /\ listeners' = listeners
            /\ wildcardListeners' = wildcardListeners
            /\ middleware' = middleware
            /\ eventHistory' = eventHistory ]_vars

\* C28 witness: getListeners has returned a count of 0 for 'user.created',
\* whose only subscription had been removed, and a count of 1 for '*'.
C28_Witness ==
  /\ returned.op = "getListeners"
  /\ UserCreated \in DOMAIN returned.value
  /\ returned.value[UserCreated] = 0
  /\ returned.value[Star] = 1
  /\ listeners[UserCreated] = <<>>
  /\ Len(wildcardListeners) = 1

\* C29: at-most-once relay. Whatever connect(), disconnect() and transport
\* events came before, one emit of a locally originated event makes the
\* bridge send at most one frame.
C29_AtMostOnceRelay ==
  \A e \in Emits :
    emits[e].origin = "local" => Cardinality(RelayedFrames(e)) <= 1

\* C29, the reason the claim gives: the bus never holds more than one relay
\* listener of the bridge.
C29_OneRelayListener ==
  Cardinality({i \in 1..Len(wildcardListeners) :
                 IsRelay(wildcardListeners[i].listener)}) <= 1

\* C30: the block list covers every send path. No frame the bridge has sent,
\* by the relay or by a direct call of emitToBackend, carries a name that
\* matches a block pattern of the policy.
C30_BlockListEverySend ==
  \A k \in 1..Len(sent) : ~BlockMatched(sent[k].name)

\* What holds of C30: the frames the relay sends match no block pattern.
C30_BlockListRelay ==
  \A k \in 1..Len(sent) : sent[k].via = "relay" => ~BlockMatched(sent[k].name)

\* the entries of callback l in the bucket off(name, l) looks at
EntriesOf(name, l) ==
  IF name = Star
  THEN {i \in 1..Len(wildcardListeners) : wildcardListeners[i].listener = l}
  ELSE IF name \in DOMAIN listeners
       THEN {i \in 1..Len(listeners[name]) : listeners[name][i].listener = l}
       ELSE {}

\* C31: the unsubscribe handle removes only its own subscription. When a
\* callback has several subscriptions on one topic, the handle one of the on /
\* once calls returned (it calls off with that topic and that callback)
\* removes one of them and leaves the others registered.
C31_HandleRemovesOwn ==
  [][ \A name \in SubNames, l \in Callbacks :
        (Off(name, l) /\ Cardinality(EntriesOf(name, l)) >= 2) =>
          Cardinality(EntriesOf(name, l))' = Cardinality(EntriesOf(name, l)) - 1 ]_vars

\* What holds of C31: the handle removes every subscription of its callback
\* on its topic, and no subscription of another callback or another topic.
C31_HandleRemovesCallback ==
  [][ \A name \in SubNames, l \in Callbacks :
        Off(name, l) =>
          /\ EntriesOf(name, l)' = {}
          /\ \A sid \in 1..nextSid :
               Registered(sid) =>
                 (Registered(sid)' <=>
                    ~(\E i \in EntriesOf(name, l) :
                        sid = (IF name = Star THEN wildcardListeners[i].sid
                               ELSE listeners[name][i].sid))) ]_vars

\* the once entries of named topics whose continuation is queued: the
\* subscriptions the next microtask checkpoint removes after their invocation
OnceDue ==
  UNION { { Calls(e)[i].entry.sid :
              i \in { k \in Pos(e) : /\ Calls(e)[k].st = "await"
                                     /\ Calls(e)[k].entry.once
                                     /\ Calls(e)[k].entry.topic # Star } } :
          e \in Emits }

\* a once entry of the match-all bucket has its continuation queued
WildcardOnceDue ==
  \E e \in Emits : \E i \in Pos(e) :
    /\ Calls(e)[i].st = "await"
    /\ Calls(e)[i].entry.once
    /\ Calls(e)[i].entry.topic = Star

\* C32: once auto-removal leaves everything else unchanged. When the once
\* subscriptions of named topics are removed after their invocation, every
\* other subscription stays registered, in the same order: the match-all
\* bucket is as it was and every named bucket has lost the removed once
\* entries only, also when a persistent subscription uses the same callback.
C32_OnceRemovalFrame ==
  [][ (Drain /\ ~WildcardOnceDue) =>
        /\ wildcardListeners' = wildcardListeners
        /\ DOMAIN listeners' = DOMAIN listeners
        /\ \A n \in DOMAIN listeners :
             listeners'[n] = SelectSeq(listeners[n], LAMBDA en : en.sid \notin OnceDue) ]_vars

\* What holds of C32: the removal of a once subscription of a named topic
\* leaves the match-all bucket and the buckets of the other topics as they
\* were, and in its own bucket the entries of the other callbacks in order.
C32_OtherCallbacksKept ==
  [][ (Drain /\ ~WildcardOnceDue) =>
        /\ wildcardListeners' = wildcardListeners
        /\ DOMAIN listeners' = DOMAIN listeners
        /\ \A n \in DOMAIN listeners :
             LET due == {l \in Callbacks : <<n, l>> \in QueuedOffs}
             IN  SelectSeq(listeners'[n], LAMBDA en : en.listener \notin due)
                   = SelectSeq(listeners[n], LAMBDA en : en.listener \notin due) ]_vars

\* a transport event of some socket the bridge created
TransportEvent ==
  \E s \in 1..Len(sockets) : SockConnect(s) \/ SockDisconnect(s) \/ SockConnectError(s)

\* C33: explicit disconnect is sticky. After disconnect() has returned (the
\* bridge holds no socket) and until connect() is called again, every
\* transport event leaves the bridge state 'disconnected' and tells no status
\* observer 'connected' or 'connecting', whatever connect() calls came before.
C33_StickyDisconnect ==
  [][ (socket = 0 /\ TransportEvent) =>
        /\ connectionStatus' = "disconnected"
        /\ \A i \in 1..Len(notified') : notified'[i].status = "disconnected" ]_vars

\* What holds of C33: after disconnect() the socket the bridge held is closed
\* and fires no event; the events that arrive come from sockets an earlier
\* connect() replaced without closing.
C33_HeldSocketSilent ==
  [][ \A s \in 1..Len(sockets) :
        (Disconnect /\ socket = s) =>
          /\ sockets'[s] = "closed"
          /\ ~(ENABLED (SockConnect(s) \/ SockDisconnect(s) \/ SockConnectError(s)))' ]_vars

\* C34: connected is reached only from connecting. On every step that
\* changes the bridge state to 'connected', the state before the step was
\* 'connecting'; no step goes from 'disconnected' to 'connected'.
C34_ConnectedFromConnecting ==
  [][ (connectionStatus' = "connected" /\ connectionStatus # "connected") =>
        connectionStatus = "connecting" ]_vars

\* What holds of C34: the state becomes 'connected' only on a transport
\* 'connect', fired by a socket that was connecting, whatever the bridge
\* state was.
C34_ConnectedOnTransportConnect ==
  [][ (connectionStatus' = "connected" /\ connectionStatus # "connected") =>
        \E s \in 1..Len(sockets) : sockets[s] = "connecting" /\ SockConnect(s) ]_vars

\* the bridge with its relay installed, through every connection state: local
\* emits and direct sends while connecting, connected, disconnected and
\* reconnected
OfflineInit ==
  \E opts \in {o \in BridgeOptions : o.syncLocalEvents /\ o.syncRemoteEvents} :
    Constructed(opts) \/ AutoConnected(opts)

OfflineNext ==
  \/ \E name \in BridgeEventNames : CanEmitBeside /\ Emit(name, "undefined")
  \/ Drain
  \/ (SocketConnected(socket, sockets) \/ Len(sockets) < MaxRelaySockets) /\ Connect
  \/ Disconnect
  \/ \E s \in 1..Len(sockets) : SockConnect(s)
  \/ \E s \in 1..Len(sockets) : SockDisconnect(s)
  \/ \E s \in 1..Len(sockets) : SockConnectError(s)
  \/ \E name \in BridgeEventNames : CanSendDirect /\ EmitToBackend(name)

OfflineSpec == OfflineInit /\ [][OfflineNext]_vars

\* C35: no queueing while not connected. No frame is ever on the transport
\* for a local event emitted while the bridge's socket was not connected,
\* neither at the emit nor after a later connection; and while the socket is
\* not connected emitToBackend returns (it can always be called) and no call
\* of it sends a frame.
C35_NoQueueing ==
  /\ [](\A e \in Emits : ~emits[e].conn => RelayedFrames(e) = {})
  /\ [](~SocketConnected(socket, sockets) =>
          \A name \in BridgeEventNames :
            /\ ENABLED EmitToBackend(name)
            /\ ~ENABLED (EmitToBackend(name) /\ sent' # sent))

\* C35 witness: an allowed local event was emitted while the socket was not
\* connected and the relay listener observed it; the socket is connected now
\* and has carried a direct frame, and none for that event.
C35_Witness ==
  \E e \in Emits :
    /\ emits[e].origin = "local"
    /\ ~emits[e].conn
    /\ IsEventAllowed(options, emits[e].ev.name)
    /\ RelayObserved(e)
    /\ RelayedFrames(e) = {}
    /\ SocketConnected(socket, sockets)
    /\ \E k \in 1..Len(sent) : sent[k].via = "direct"

\* names given to on in the routing specification: the match-all name, two
\* event names and a prefix pattern
RoutedNames == {Star, UserCreated, UserStar, TodoX}

\* the bus alone, for the routing: a listener on each kind of name, a
\* middleware that renames, and emits of the event names
RoutingNext ==
  \/ \E name \in RoutedNames : CanSubscribe /\ On(name, "f", 0, FALSE)
  \/ CanUse /\ Use("rename")
  \/ \E name \in BridgeEventNames : CanEmit /\ Emit(name, "undefined")
  \/ Drain

RoutingSpec == BusInit /\ [][RoutingNext]_vars

\* C37: the bus routes only by exact name or match-all. Every listener an
\* emit invoked was registered on '*' or on exactly the name of the processed
\* event; in particular no emit of 'user.created' invoked a subscription
\* registered on the prefix pattern 'user.*'.
C37_ExactRouting ==
  \A e \in Emits : \A i \in Pos(e) :
    /\ Calls(e)[i].entry.topic # Star => Calls(e)[i].entry.topic = emits[e].ev.name
    /\ emits[e].ev.name = UserCreated => Calls(e)[i].entry.topic # UserStar

\* C37 witness: a subscription on 'user.*' and after it one on 'user.created'
\* were registered; an emit of 'user.created' invoked the second and not the
\* first.
C37_Witness ==
  /\ UserStar \in DOMAIN listeners
  /\ \E e \in Emits : \E i \in Pos(e) : \E k \in 1..Len(listeners[UserStar]) :
      /\ emits[e].arg.name = UserCreated
      /\ emits[e].ev.name = UserCreated
      /\ Calls(e)[i].entry.topic = UserCreated
      /\ listeners[UserStar][k].sid < Calls(e)[i].entry.sid
      /\ \A j \in Pos(e) : Calls(e)[j].entry # listeners[UserStar][k]

\* C38: no-op guards of the bridge. While the socket the bridge holds is
\* connected, the bridge state is 'connected' and connect() leaves it so: it
\* creates no socket and notifies no observer; while the bridge holds no
\* socket, disconnect() changes nothing and notifies no observer.
C38_NoOpGuards ==
  /\ [](SocketConnected(socket, sockets) =>
          /\ connectionStatus = "connected"
          /\ ENABLED (Connect /\ UNCHANGED vars)
          /\ ~ENABLED (Connect /\ vars' # vars))
  /\ [](socket = 0 =>
          /\ ENABLED (Disconnect /\ UNCHANGED vars)
          /\ ~ENABLED (Disconnect /\ vars' # vars))

\* What holds of C38: both guards return without any effect; connect() while
\* the socket held is connected leaves the bridge state as it was, whatever
\* it was.
C38_GuardsChangeNothing ==
  /\ [](SocketConnected(socket, sockets) =>
          /\ ENABLED (Connect /\ UNCHANGED vars)
          /\ ~ENABLED (Connect /\ vars' # vars))
  /\ [](socket = 0 =>
          /\ ENABLED (Disconnect /\ UNCHANGED vars)
          /\ ~ENABLED (Disconnect /\ vars' # vars))

\* the bus alone, for the event log: listeners that read the log, a listener
\* that emits, a listener whose promise stays pending (so that emits overlap),
\* a middleware, and emits of two names. The emitting listener is subscribed
\* to 'user.created' only: the event it emits does not reach it again
LogOrderNext ==
  \/ \E name \in SubNames \cup {TodoX}, l \in {"r", "h"} : CanSubscribe /\ On(name, l, 0, FALSE)
  \/ CanSubscribe /\ On(UserCreated, "e", 0, FALSE)
  \/ CanUse /\ Use("strip")
  \/ \E name \in {UserCreated, TodoX}, src \in LocalSources : CanEmit /\ Emit(name, src)
  \/ Drain

LogOrderSpec == BusInit /\ [][LogOrderNext]_vars

\* the processed events of the emit calls that reached addToHistory, in the
\* order the calls were made
EmittedInCallOrder ==
  LET made == SelectSeq(emits, LAMBDA r : ~r.thrown)
  IN  [i \in 1..Len(made) |-> made[i].ev]

\* C36: log order equals emit order. A listener that reads getHistory during
\* its invocation finds the event it was invoked with as the newest entry of
\* the log (the append comes before every listener call of that emit), and
\* the log holds the events of the emit calls in the order the calls were
\* made, overlapping or not.
C36_LogOrder ==
  /\ returned.op = "listenerRead" =>
       /\ returned.value # <<>>
       /\ returned.value[Len(returned.value)] = returned.event
  /\ eventHistory = EmittedInCallOrder

\* What holds of C36: a listener that reads getHistory during its invocation
\* finds the event it was invoked with in the log, and the log holds the
\* events of the emit calls in the order the calls were made; the event is
\* the newest entry unless a listener invoked before it in the same dispatch
\* has itself emitted.
C36_AppendedBeforeListeners ==
  /\ returned.op = "listenerRead" =>
       \E i \in 1..Len(returned.value) : returned.value[i] = returned.event
  /\ eventHistory = EmittedInCallOrder
  /\ (returned.op = "listenerRead" /\ \A e \in Emits : emits[e].seq) =>
       returned.value[Len(returned.value)] = returned.event

====
